---- MODULE Spec2Model ----
(***************************************************************************)
(* dod::circular_buffer<T, Capacity, Policy, IndexType, InlineThreshold>   *)
(* (src/circular_buffer/circular_buffer.h) as a state machine.             *)
(*                                                                         *)
(* The template parameters Capacity, Policy and InlineThreshold are fixed  *)
(* by Init and never change.  A small number of container objects of that  *)
(* one type exist side by side, so that copies and moves between them can  *)
(* be modelled.  Element storage is modelled as blocks of Capacity slots;  *)
(* a slot holds the value of the element constructed in it, or Dead.       *)
(***************************************************************************)
EXTENDS Integers, Sequences, FiniteSets, TLC

\* ---------------------------------------------------------------- bounds
MaxCapacity == 3            \* capacities 1..MaxCapacity (1, 2: powers of two; 3: not)
MaxVal == 2                 \* element values 1..MaxVal
SmallInlineThreshold == 0   \* an InlineThreshold that sends capacities above it to the heap
IndexBits == 4              \* width of the unsigned arithmetic on IndexType
MaxOps == 6                 \* calls made in the sliding-window specification
MaxPairCapacity == 2        \* capacities 1..MaxPairCapacity where two objects are modelled
MaxBulkCapacity == 2        \* capacities 1..MaxBulkCapacity where ranges are inserted

\* ------------------------------------------------------- program constants
DefaultInlineThreshold == 64

Dead == 0                   \* a slot of raw memory holding no constructed element
nullptr == 0
BufIds == {1, 2}             \* the container objects: `this` and `other` of a copy or move
Blocks == BufIds             \* storage blocks: at most one per object
Vals == 1..MaxVal
PairVals == {1, 2}           \* the values pushed where two objects are modelled: no
                             \* operation inspects a value, two tell the elements apart
AnyVal == 1                  \* the value pushed where only the positions of elements matter
IndexModulus == 2 ^ IndexBits

VARIABLES
    Capacity,        \* template parameter
    Policy,          \* template parameter: "overwrite" or "discard"
    InlineThreshold, \* template parameter
    NDEBUG,          \* build parameter: TRUE when assert() is compiled out
    alive,           \* alive[i]: container object i is constructed and not yet destroyed
    m_storage,       \* m_storage[i]: heap pointer (a block, or nullptr); unused when inline
    m_head,          \* m_head[i]
    m_tail,          \* m_tail[i]
    m_size,          \* m_size[i]
    slots,           \* slots[b][k]: element in slot k of block b, or Dead
    allocated,       \* heap blocks currently allocated
    fault,           \* "none", or the undefined behaviour the program ran into
    undestroyed,     \* element constructor calls minus element destructor calls so far
    call,            \* the last call made: operation, range passed, result
    pushes,          \* sliding window: push_back calls made
    drops,           \* sliding window: pop_front calls made
    accepted,        \* sliding window: push_back calls that found a free slot
    window,          \* sliding window: the pushed values that survive, oldest first
    held             \* an iterator the caller keeps from one call to the next

vars == <<Capacity, Policy, InlineThreshold, NDEBUG, alive, m_storage, m_head, m_tail, m_size,
          slots, allocated, fault, undestroyed, call, pushes, drops, accepted, window, held>>
params == <<Capacity, Policy, InlineThreshold, NDEBUG>>
ghost == <<pushes, drops, accepted, window, held>>

\* ------------------------------------------------------- index arithmetic
RECURSIVE BitAnd(_, _)
BitAnd(a, b) ==
    IF a = 0 \/ b = 0 THEN 0
    ELSE (a % 2) * (b % 2) + 2 * BitAnd(a \div 2, b \div 2)

\* unsigned wraparound of IndexType arithmetic
Wrap(x) == x % IndexModulus

IsPowerOfTwo == BitAnd(Capacity, Capacity - 1) = 0

next_index_n1(index) ==
    IF index + 1 < Capacity - 1 THEN index + 1 ELSE 0

next_index(index) ==
    IF IsPowerOfTwo
    THEN BitAnd(Wrap(index + 1), Capacity - 1)
    ELSE IF index + 1 < Capacity THEN index + 1 ELSE 0

prev_index_nowrap(index) ==
    IF index > 0 THEN index - 1 ELSE 0

prev_index(index) ==
    IF IsPowerOfTwo
    THEN BitAnd(Wrap(index - 1), Capacity - 1)
    ELSE IF index > 0 THEN index - 1 ELSE Capacity - 1

add_index_reset(index, offset) ==
    IF index + offset < Capacity THEN index + offset ELSE 0

add_index(index, offset) ==
    IF IsPowerOfTwo
    THEN BitAnd(Wrap(index + offset), Capacity - 1)
    ELSE Wrap(index + offset) % Capacity

physical_index(i, logical_index) == add_index(m_tail[i], logical_index)

\* ----------------------------------------------------------------- storage
uses_inline_storage == Capacity <= InlineThreshold

\* inline storage of object i is block i, embedded in the object
get_storage(i) == IF uses_inline_storage THEN i ELSE m_storage[i]

size(i) == m_size[i]
empty_head_is_tail(i) == m_head[i] = m_tail[i]
empty(i) == m_size[i] = 0
full_gt(i) == m_size[i] > Capacity
full(i) == m_size[i] = Capacity

construct(mem, p, k, v) == [mem EXCEPT ![p][k] = v]
destruct_nothing(mem, p, k) == mem
destruct(mem, p, k) == [mem EXCEPT ![p][k] = Dead]
reconstruct_destroy_only(mem, p, k, v) == destruct(mem, p, k)
reconstruct(mem, p, k, v) == construct(destruct(mem, p, k), p, k, v)

RawBlock == [k \in 0..(Capacity - 1) |-> Dead]

\* ------------------------------------------------------------ element access
ElemAt(i, index) == slots[get_storage(i)][physical_index(i, index)]
front_at_head(i) == slots[get_storage(i)][m_head[i]]
front(i) == slots[get_storage(i)][m_tail[i]]
back_at_head(i) == slots[get_storage(i)][m_head[i]]
back(i) == slots[get_storage(i)][prev_index(m_head[i])]

\* logical contents, oldest first, as read through operator[]
Contents(i) ==
    IF m_size[i] = 0 THEN <<>> ELSE [k \in 1..m_size[i] |-> ElemAt(i, k - 1)]

\* a bulk_insert_result
Counts(inserted, overwritten, discarded) ==
    [inserted_count |-> inserted, overwritten_count |-> overwritten,
     discarded_count |-> discarded]

Returned(op, result, value) ==
    call' = [op |-> op, result |-> result, value |-> value,
             range |-> <<>>, counts |-> Counts(0, 0, 0)]

\* a call that was given a range of elements, and the counts it returned
ReturnedFor(op, result, range, counts) ==
    call' = [op |-> op, result |-> result, value |-> 0,
             range |-> range, counts |-> counts]

Running == fault = "none"

\* the call ran the constructor of T constructed times and its destructor
\* destroyed times, on slots of the storage
Calls(constructed, destroyed) == undestroyed' = undestroyed + constructed - destroyed

\* object i takes new cursor values and the memory becomes mem
Update(i, hd, tl, sz, mem) ==
    /\ m_head' = [m_head EXCEPT ![i] = hd]
    /\ m_tail' = [m_tail EXCEPT ![i] = tl]
    /\ m_size' = [m_size EXCEPT ![i] = sz]
    /\ slots' = mem

\* The call constructs an element at get_storage()[k] with get_storage() null:
\* undefined behaviour, a write to an address in the first page, which ends
\* the program.
NullWrite(op, i) ==
    /\ fault' = "null_write"
    /\ Returned(op, "fault", 0)
    /\ UNCHANGED <<m_storage, m_head, m_tail, m_size, slots, allocated, undestroyed>>

\* ------------------------------------------------------------- insertion
push_back_impl(op, i, v) ==
    /\ Running /\ alive[i]
    /\ UNCHANGED <<params, alive>>
    /\ IF Policy = "discard" /\ full(i)
       THEN /\ Returned(op, "discarded", 0)
            /\ UNCHANGED <<m_storage, m_head, m_tail, m_size, slots, allocated, fault, undestroyed>>
       ELSE LET was_full == full(i)
                storage == get_storage(i)
            IN  IF storage = nullptr
                THEN NullWrite(op, i)
                ELSE /\ UNCHANGED <<m_storage, allocated, fault>>
                     /\ IF was_full
                        THEN /\ Update(i, next_index(m_head[i]), next_index(m_tail[i]), m_size[i],
                                       reconstruct(slots, storage, m_head[i], v))
                             /\ Calls(1, 1)
                             /\ Returned(op, "overwritten", 0)
                        ELSE /\ Update(i, next_index(m_head[i]), m_tail[i], m_size[i] + 1,
                                       construct(slots, storage, m_head[i], v))
                             /\ Calls(1, 0)
                             /\ Returned(op, "inserted", 0)

push_front_impl_growing(op, i, v) ==
    /\ Running /\ alive[i]
    /\ UNCHANGED <<params, alive>>
    /\ IF Policy = "discard" /\ full(i)
       THEN /\ Returned(op, "discarded", 0)
            /\ UNCHANGED <<m_storage, m_head, m_tail, m_size, slots, allocated, fault, undestroyed>>
       ELSE LET was_full == full(i)
                storage == get_storage(i)
            IN  IF storage = nullptr
                THEN NullWrite(op, i)
                ELSE /\ UNCHANGED <<m_storage, allocated, fault>>
                     /\ IF was_full
                        THEN /\ Update(i, prev_index(m_head[i]), prev_index(m_tail[i]),
                                       m_size[i] + 1,
                                       reconstruct(slots, storage, prev_index(m_tail[i]), v))
                             /\ Calls(1, 1)
                             /\ Returned(op, "overwritten", 0)
                        ELSE /\ Update(i, m_head[i], prev_index(m_tail[i]), m_size[i] + 1,
                                       construct(slots, storage, prev_index(m_tail[i]), v))
                             /\ Calls(1, 0)
                             /\ Returned(op, "inserted", 0)

push_front_impl(op, i, v) ==
    /\ Running /\ alive[i]
    /\ UNCHANGED <<params, alive>>
    /\ IF Policy = "discard" /\ full(i)
       THEN /\ Returned(op, "discarded", 0)
            /\ UNCHANGED <<m_storage, m_head, m_tail, m_size, slots, allocated, fault, undestroyed>>
       ELSE LET was_full == full(i)
                storage == get_storage(i)
            IN  IF storage = nullptr
                THEN NullWrite(op, i)
                ELSE /\ UNCHANGED <<m_storage, allocated, fault>>
                     /\ IF was_full
                        THEN /\ Update(i, prev_index(m_head[i]), prev_index(m_tail[i]), m_size[i],
                                       reconstruct(slots, storage, prev_index(m_tail[i]), v))
                             /\ Calls(1, 1)
                             /\ Returned(op, "overwritten", 0)
                        ELSE /\ Update(i, m_head[i], prev_index(m_tail[i]), m_size[i] + 1,
                                       construct(slots, storage, prev_index(m_tail[i]), v))
                             /\ Calls(1, 0)
                             /\ Returned(op, "inserted", 0)

emplace_back_impl_tail_kept(op, i, v) ==
    /\ Running /\ alive[i]
    /\ UNCHANGED <<params, alive>>
    /\ IF Policy = "discard" /\ full(i)
       THEN /\ Returned(op, "discarded", 0)
            /\ UNCHANGED <<m_storage, m_head, m_tail, m_size, slots, allocated, fault, undestroyed>>
       ELSE LET was_full == full(i)
                storage == get_storage(i)
            IN  IF storage = nullptr
                THEN NullWrite(op, i)
                ELSE /\ UNCHANGED <<m_storage, allocated, fault>>
                     /\ IF was_full
                        THEN /\ Update(i, next_index(m_head[i]), m_tail[i], m_size[i],
                                       construct(destruct(slots, storage, m_head[i]),
                                                 storage, m_head[i], v))
                             /\ Calls(1, 1)
                             /\ Returned(op, "overwritten", 0)
                        ELSE /\ Update(i, next_index(m_head[i]), m_tail[i], m_size[i] + 1,
                                       construct(slots, storage, m_head[i], v))
                             /\ Calls(1, 0)
                             /\ Returned(op, "inserted", 0)

emplace_back_impl(op, i, v) ==
    /\ Running /\ alive[i]
    /\ UNCHANGED <<params, alive>>
    /\ IF Policy = "discard" /\ full(i)
       THEN /\ Returned(op, "discarded", 0)
            /\ UNCHANGED <<m_storage, m_head, m_tail, m_size, slots, allocated, fault, undestroyed>>
       ELSE LET was_full == full(i)
                storage == get_storage(i)
            IN  IF storage = nullptr
                THEN NullWrite(op, i)
                ELSE /\ UNCHANGED <<m_storage, allocated, fault>>
                     /\ IF was_full
                        THEN /\ Update(i, next_index(m_head[i]), next_index(m_tail[i]), m_size[i],
                                       construct(destruct(slots, storage, m_head[i]),
                                                 storage, m_head[i], v))
                             /\ Calls(1, 1)
                             /\ Returned(op, "overwritten", 0)
                        ELSE /\ Update(i, next_index(m_head[i]), m_tail[i], m_size[i] + 1,
                                       construct(slots, storage, m_head[i], v))
                             /\ Calls(1, 0)
                             /\ Returned(op, "inserted", 0)

emplace_front_impl(op, i, v) ==
    /\ Running /\ alive[i]
    /\ UNCHANGED <<params, alive>>
    /\ IF Policy = "discard" /\ full(i)
       THEN /\ Returned(op, "discarded", 0)
            /\ UNCHANGED <<m_storage, m_head, m_tail, m_size, slots, allocated, fault, undestroyed>>
       ELSE LET was_full == full(i)
                storage == get_storage(i)
            IN  IF storage = nullptr
                THEN NullWrite(op, i)
                ELSE /\ UNCHANGED <<m_storage, allocated, fault>>
                     /\ IF was_full
                        THEN /\ Update(i, prev_index(m_head[i]), prev_index(m_tail[i]), m_size[i],
                                       construct(destruct(slots, storage, prev_index(m_tail[i])),
                                                 storage, prev_index(m_tail[i]), v))
                             /\ Calls(1, 1)
                             /\ Returned(op, "overwritten", 0)
                        ELSE /\ Update(i, m_head[i], prev_index(m_tail[i]), m_size[i] + 1,
                                       construct(slots, storage, prev_index(m_tail[i]), v))
                             /\ Calls(1, 0)
                             /\ Returned(op, "inserted", 0)

push_back(i, v) == push_back_impl("push_back", i, v) /\ UNCHANGED ghost
push_front(i, v) == push_front_impl("push_front", i, v) /\ UNCHANGED ghost
emplace_back(i, v) == emplace_back_impl("emplace_back", i, v) /\ UNCHANGED ghost
emplace_front(i, v) == emplace_front_impl("emplace_front", i, v) /\ UNCHANGED ghost

\* ------------------------------------ insertion of an element that throws
\* The constructor of T the insertion calls throws: placement new leaves no
\* element in the slot and the exception leaves the function at that
\* statement, with what the statements before it did.
Thrown(op) == Returned(op, "throws", 0)

push_back_impl_throwing(op, i) ==
    /\ Running /\ alive[i]
    /\ UNCHANGED <<params, alive>>
    /\ IF Policy = "discard" /\ full(i)
       THEN /\ Returned(op, "discarded", 0)
            /\ UNCHANGED <<m_storage, m_head, m_tail, m_size, slots, allocated, fault, undestroyed>>
       ELSE LET was_full == full(i)
                storage == get_storage(i)
            IN  IF storage = nullptr
                THEN NullWrite(op, i)
                ELSE /\ UNCHANGED <<m_storage, allocated, fault>>
                     /\ Thrown(op)
                     /\ IF was_full
                        THEN /\ Update(i, m_head[i], m_tail[i], m_size[i],
                                       destruct(slots, storage, m_head[i]))
                             /\ Calls(0, 1)
                        ELSE /\ Update(i, m_head[i], m_tail[i], m_size[i], slots)
                             /\ Calls(0, 0)

push_front_impl_throwing(op, i) ==
    /\ Running /\ alive[i]
    /\ UNCHANGED <<params, alive>>
    /\ IF Policy = "discard" /\ full(i)
       THEN /\ Returned(op, "discarded", 0)
            /\ UNCHANGED <<m_storage, m_head, m_tail, m_size, slots, allocated, fault, undestroyed>>
       ELSE LET was_full == full(i)
                storage == get_storage(i)
            IN  IF storage = nullptr
                THEN NullWrite(op, i)
                ELSE /\ UNCHANGED <<m_storage, allocated, fault>>
                     /\ Thrown(op)
                     /\ IF was_full
                        THEN /\ Update(i, prev_index(m_head[i]), prev_index(m_tail[i]), m_size[i],
                                       destruct(slots, storage, prev_index(m_tail[i])))
                             /\ Calls(0, 1)
                        ELSE /\ Update(i, m_head[i], prev_index(m_tail[i]), m_size[i], slots)
                             /\ Calls(0, 0)

\* emplace_back_impl and emplace_front_impl make the same statements in the
\* same order, with destruct and construct in the place of reconstruct
emplace_back_impl_throwing(op, i) == push_back_impl_throwing(op, i)
emplace_front_impl_throwing(op, i) == push_front_impl_throwing(op, i)

push_back_throwing(i) == push_back_impl_throwing("push_back", i) /\ UNCHANGED ghost
push_front_throwing(i) == push_front_impl_throwing("push_front", i) /\ UNCHANGED ghost
emplace_back_throwing(i) == emplace_back_impl_throwing("emplace_back", i) /\ UNCHANGED ghost
emplace_front_throwing(i) == emplace_front_impl_throwing("emplace_front", i) /\ UNCHANGED ghost

\* every slot object i counts as an element holds one
Intact(i) == \A k \in 0..(m_size[i] - 1) : ElemAt(i, k) # Dead

\* ------------------------------------------- insertion inside a loop
\* Where a member function calls an insertion in a loop, the insertion is
\* applied to the object as a value: its members, the memory, the result of
\* the last insertion and the constructor and destructor calls made so far.
Object(p, hd, tl, sz, mem) ==
    [storage |-> p, head |-> hd, tail |-> tl, size |-> sz, mem |-> mem,
     result |-> "none", constructed |-> 0, destroyed |-> 0]

This(i) == Object(get_storage(i), m_head[i], m_tail[i], m_size[i], slots)

\* push_back_impl(value) on the object b; after a write through a null
\* storage pointer nothing more runs
push_back_impl_on(b, v) ==
    IF b.result = "fault" THEN b
    ELSE IF Policy = "discard" /\ b.size = Capacity
    THEN [b EXCEPT !.result = "discarded"]
    ELSE IF b.storage = nullptr
    THEN [b EXCEPT !.result = "fault"]
    ELSE IF b.size = Capacity
    THEN [b EXCEPT !.mem = reconstruct(b.mem, b.storage, b.head, v),
                   !.head = next_index(b.head),
                   !.tail = next_index(b.tail),
                   !.constructed = @ + 1, !.destroyed = @ + 1,
                   !.result = "overwritten"]
    ELSE [b EXCEPT !.mem = construct(b.mem, b.storage, b.head, v),
                   !.head = next_index(b.head),
                   !.size = b.size + 1,
                   !.constructed = @ + 1,
                   !.result = "inserted"]

push_front_impl_on(b, v) ==
    IF b.result = "fault" THEN b
    ELSE IF Policy = "discard" /\ b.size = Capacity
    THEN [b EXCEPT !.result = "discarded"]
    ELSE IF b.storage = nullptr
    THEN [b EXCEPT !.result = "fault"]
    ELSE IF b.size = Capacity
    THEN [b EXCEPT !.head = prev_index(b.head),
                   !.tail = prev_index(b.tail),
                   !.mem = reconstruct(b.mem, b.storage, prev_index(b.tail), v),
                   !.constructed = @ + 1, !.destroyed = @ + 1,
                   !.result = "overwritten"]
    ELSE [b EXCEPT !.tail = prev_index(b.tail),
                   !.mem = construct(b.mem, b.storage, prev_index(b.tail), v),
                   !.size = b.size + 1,
                   !.constructed = @ + 1,
                   !.result = "inserted"]

\* object i takes the members of the value b, and the memory becomes b's
Assign(i, b) ==
    /\ Update(i, b.head, b.tail, b.size, b.mem)
    /\ Calls(b.constructed, b.destroyed)

\* emplace_back_impl(args...) and emplace_front_impl(args...) on the object
\* b, v being the value the constructor of T makes of args
emplace_back_impl_on(b, v) ==
    IF b.result = "fault" THEN b
    ELSE IF Policy = "discard" /\ b.size = Capacity
    THEN [b EXCEPT !.result = "discarded"]
    ELSE IF b.storage = nullptr
    THEN [b EXCEPT !.result = "fault"]
    ELSE IF b.size = Capacity
    THEN [b EXCEPT !.mem = construct(destruct(b.mem, b.storage, b.head), b.storage, b.head, v),
                   !.head = next_index(b.head),
                   !.tail = next_index(b.tail),
                   !.constructed = @ + 1, !.destroyed = @ + 1,
                   !.result = "overwritten"]
    ELSE [b EXCEPT !.mem = construct(b.mem, b.storage, b.head, v),
                   !.head = next_index(b.head),
                   !.size = b.size + 1,
                   !.constructed = @ + 1,
                   !.result = "inserted"]

emplace_front_impl_on(b, v) ==
    IF b.result = "fault" THEN b
    ELSE IF Policy = "discard" /\ b.size = Capacity
    THEN [b EXCEPT !.result = "discarded"]
    ELSE IF b.storage = nullptr
    THEN [b EXCEPT !.result = "fault"]
    ELSE IF b.size = Capacity
    THEN [b EXCEPT !.head = prev_index(b.head),
                   !.tail = prev_index(b.tail),
                   !.mem = construct(destruct(b.mem, b.storage, prev_index(b.tail)),
                                     b.storage, prev_index(b.tail), v),
                   !.constructed = @ + 1, !.destroyed = @ + 1,
                   !.result = "overwritten"]
    ELSE [b EXCEPT !.tail = prev_index(b.tail),
                   !.mem = construct(b.mem, b.storage, prev_index(b.tail), v),
                   !.size = b.size + 1,
                   !.constructed = @ + 1,
                   !.result = "inserted"]

\* an insertion whose insert_result the caller does not get: object i takes
\* the members of b
Unchecked(op, i, b) ==
    /\ Running /\ alive[i]
    /\ IF b.result = "fault"
       THEN NullWrite(op, i)
       ELSE /\ Assign(i, b)
            /\ Returned(op, "void", 0)
            /\ UNCHANGED <<m_storage, allocated, fault>>
    /\ UNCHANGED <<params, alive, ghost>>

Tally_no_discard(counts, insert_res) ==
    CASE insert_res = "inserted" -> [counts EXCEPT !.inserted_count = Wrap(@ + 1)]
      [] insert_res = "overwritten" -> [counts EXCEPT !.overwritten_count = Wrap(@ + 1)]
      [] OTHER -> counts

\* the switch of push_back_range / push_front_range
Tally(counts, insert_res) ==
    CASE insert_res = "inserted" -> [counts EXCEPT !.inserted_count = Wrap(@ + 1)]
      [] insert_res = "overwritten" -> [counts EXCEPT !.overwritten_count = Wrap(@ + 1)]
      [] insert_res = "discarded" -> [counts EXCEPT !.discarded_count = Wrap(@ + 1)]
      [] OTHER -> counts

RECURSIVE push_back_each_truncating(_, _, _)
push_back_each_truncating(b, counts, range) ==
    IF range = <<>> \/ b.result = "fault" \/ b.size = Capacity
    THEN [b |-> b, counts |-> counts]
    ELSE LET n == push_back_impl_on(b, Head(range))
         IN  push_back_each_truncating(n, Tally(counts, n.result), Tail(range))

\* the loop  for (it = first; it != last; ++it) push_back(*it)
RECURSIVE push_back_each(_, _, _)
push_back_each(b, counts, range) ==
    IF range = <<>> \/ b.result = "fault" THEN [b |-> b, counts |-> counts]
    ELSE LET n == push_back_impl_on(b, Head(range))
         IN  push_back_each(n, Tally(counts, n.result), Tail(range))

RECURSIVE push_front_each(_, _, _)
push_front_each(b, counts, range) ==
    IF range = <<>> \/ b.result = "fault" THEN [b |-> b, counts |-> counts]
    ELSE LET n == push_front_impl_on(b, Head(range))
         IN  push_front_each(n, Tally(counts, n.result), Tail(range))

\* the ranges passed: all of up to Capacity + 1 elements
Ranges == UNION {[1..n -> PairVals] : n \in 0..(Capacity + 1)}

push_back_range(i, range) ==
    /\ Running /\ alive[i]
    /\ LET r == push_back_each(This(i), Counts(0, 0, 0), range) IN
        IF r.b.result = "fault"
        THEN NullWrite("push_back_range", i)
        ELSE /\ Assign(i, r.b)
             /\ ReturnedFor("push_back_range", "bulk_insert_result", range, r.counts)
             /\ UNCHANGED <<m_storage, allocated, fault>>
    /\ UNCHANGED <<params, alive, ghost>>

push_front_range(i, range) ==
    /\ Running /\ alive[i]
    /\ LET r == push_front_each(This(i), Counts(0, 0, 0), range) IN
        IF r.b.result = "fault"
        THEN NullWrite("push_front_range", i)
        ELSE /\ Assign(i, r.b)
             /\ ReturnedFor("push_front_range", "bulk_insert_result", range, r.counts)
             /\ UNCHANGED <<m_storage, allocated, fault>>
    /\ UNCHANGED <<params, alive, ghost>>

\* ------------------------------------------ insertion, result ignored
push_back_unchecked_skipping(i, v) ==
    Unchecked("push_back_unchecked", i,
              IF full(i) THEN [This(i) EXCEPT !.result = "discarded"]
              ELSE push_back_impl_on(This(i), v))

push_back_unchecked(i, v) ==
    Unchecked("push_back_unchecked", i, push_back_impl_on(This(i), v))

push_front_unchecked(i, v) ==
    Unchecked("push_front_unchecked", i, push_front_impl_on(This(i), v))

emplace_back_unchecked(i, v) ==
    Unchecked("emplace_back_unchecked", i, emplace_back_impl_on(This(i), v))

emplace_front_unchecked(i, v) ==
    Unchecked("emplace_front_unchecked", i, emplace_front_impl_on(This(i), v))

\* ------------------------------------------ a removal after an insertion
\* pop_back() and pop_front() on the object b, as a value
pop_back_on(b) ==
    [b EXCEPT !.head = prev_index(b.head),
              !.mem = destruct(b.mem, b.storage, prev_index(b.head)),
              !.size = b.size - 1,
              !.destroyed = @ + 1]

pop_front_on_newest(b) ==
    [b EXCEPT !.head = prev_index(b.head),
              !.mem = destruct(b.mem, b.storage, prev_index(b.head)),
              !.size = b.size - 1,
              !.destroyed = @ + 1]

pop_front_on(b) ==
    [b EXCEPT !.mem = destruct(b.mem, b.storage, b.tail),
              !.tail = next_index(b.tail),
              !.size = b.size - 1,
              !.destroyed = @ + 1]

\* the caller makes two calls on object i one after the other, an insertion
\* of v that leaves the object as b and a removal that leaves it as c
Then(op, i, v, b, c) ==
    /\ Running /\ alive[i]
    /\ get_storage(i) # nullptr
    /\ b.size > 0
    /\ Assign(i, c)
    /\ Returned(op, "void", v)
    /\ UNCHANGED <<params, alive, m_storage, allocated, fault, ghost>>

push_back_pop_back(i, v) ==
    LET b == push_back_impl_on(This(i), v)
    IN  Then("push_back; pop_back", i, v, b, pop_back_on(b))

push_front_pop_front(i, v) ==
    LET b == push_front_impl_on(This(i), v)
    IN  Then("push_front; pop_front", i, v, b, pop_front_on(b))

push_back_pop_front(i, v) ==
    LET b == push_back_impl_on(This(i), v)
    IN  Then("push_back; pop_front", i, v, b, pop_front_on(b))

\* --------------------------------------------------------------- removal
pop_back_impl_head_kept(op, i, result, value) ==
    /\ Running /\ alive[i]
    /\ ~empty(i)
    /\ Update(i, m_head[i], m_tail[i], m_size[i] - 1,
              destruct(slots, get_storage(i), prev_index(m_head[i])))
    /\ Calls(0, 1)
    /\ Returned(op, result, value)
    /\ UNCHANGED <<params, alive, m_storage, allocated, fault>>

pop_back_impl(op, i, result, value) ==
    /\ Running /\ alive[i]
    /\ ~empty(i)
    /\ Update(i, prev_index(m_head[i]), m_tail[i], m_size[i] - 1,
              destruct(slots, get_storage(i), prev_index(m_head[i])))
    /\ Calls(0, 1)
    /\ Returned(op, result, value)
    /\ UNCHANGED <<params, alive, m_storage, allocated, fault>>

pop_front_impl_tail_kept(op, i, result, value) ==
    /\ Running /\ alive[i]
    /\ ~empty(i)
    /\ Update(i, m_head[i], m_tail[i], m_size[i] - 1,
              destruct(slots, get_storage(i), m_tail[i]))
    /\ Calls(0, 1)
    /\ Returned(op, result, value)
    /\ UNCHANGED <<params, alive, m_storage, allocated, fault>>

pop_front_impl(op, i, result, value) ==
    /\ Running /\ alive[i]
    /\ ~empty(i)
    /\ Update(i, m_head[i], next_index(m_tail[i]), m_size[i] - 1,
              destruct(slots, get_storage(i), m_tail[i]))
    /\ Calls(0, 1)
    /\ Returned(op, result, value)
    /\ UNCHANGED <<params, alive, m_storage, allocated, fault>>

pop_back(i) == pop_back_impl("pop_back", i, "void", 0) /\ UNCHANGED ghost
pop_front(i) == pop_front_impl("pop_front", i, "void", 0) /\ UNCHANGED ghost

NoValue(op, i) ==
    /\ Running /\ alive[i]
    /\ empty(i)
    /\ Returned(op, "nullopt", 0)
    /\ UNCHANGED <<params, alive, m_storage, m_head, m_tail, m_size, slots, allocated, fault,
                   undestroyed>>

pop_back_safe(i) ==
    /\ \/ NoValue("pop_back_safe", i)
       \/ pop_back_impl("pop_back_safe", i, "value", back(i))
    /\ UNCHANGED ghost

pop_front_safe(i) ==
    /\ \/ NoValue("pop_front_safe", i)
       \/ pop_front_impl("pop_front_safe", i, "value", front(i))
    /\ UNCHANGED ghost

\* -------------------------------------------------- element access calls
\* the indices a caller passes: those of the elements, Capacity and beyond
Indexes == 0..(Capacity + 1)

Unchanged == UNCHANGED <<m_storage, m_head, m_tail, m_size, slots, allocated, undestroyed>>

\* what a read of get_storage()[k] of object i can give: the element, or for
\* a slot without an element whatever the raw memory holds
ReadSlot(i, k) ==
    IF slots[get_storage(i)][k] # Dead THEN {slots[get_storage(i)][k]} ELSE Vals \cup {Dead}

assert_ignored(op) ==
    /\ fault' = fault
    /\ Returned(op, "void", 0)
    /\ Unchanged

\* CIRCULAR_BUFFER_ASSERT(expression) with a false expression where assert()
\* is compiled in: abort()
assert_fails(op) ==
    /\ fault' = "assert"
    /\ Returned(op, "abort", 0)
    /\ Unchanged

at_unguarded(i, index) ==
    /\ Running /\ alive[i]
    /\ Returned("at", "value", slots[get_storage(i)][physical_index(i, index)])
    /\ Unchanged
    /\ UNCHANGED <<params, alive, fault, ghost>>

at(i, index) ==
    /\ Running /\ alive[i]
    /\ IF index >= m_size[i]
       THEN Returned("at", "out_of_range", 0)
       ELSE Returned("at", "value", slots[get_storage(i)][physical_index(i, index)])
    /\ Unchanged
    /\ UNCHANGED <<params, alive, fault, ghost>>

\* operator[](index)
subscript(i, index) ==
    /\ Running /\ alive[i]
    /\ IF index < m_size[i]
       THEN Returned("operator[]", "value", ElemAt(i, index)) /\ Unchanged /\ fault' = fault
       ELSE IF ~NDEBUG
       THEN assert_fails("operator[]")
       ELSE IF get_storage(i) = nullptr
       THEN Returned("operator[]", "fault", 0) /\ Unchanged /\ fault' = "null_read"
       ELSE /\ \E g \in ReadSlot(i, physical_index(i, index)) :
                    Returned("operator[]", "value", g)
            /\ Unchanged /\ fault' = fault
    /\ UNCHANGED <<params, alive, ghost>>

\* front() or back(), reading get_storage()[k]
read_end(op, i, k) ==
    /\ Running /\ alive[i]
    /\ IF ~empty(i)
       THEN Returned(op, "value", slots[get_storage(i)][k]) /\ Unchanged /\ fault' = fault
       ELSE IF ~NDEBUG
       THEN assert_fails(op)
       ELSE IF get_storage(i) = nullptr
       THEN Returned(op, "fault", 0) /\ Unchanged /\ fault' = "null_read"
       ELSE /\ \E g \in ReadSlot(i, k) : Returned(op, "value", g)
            /\ Unchanged /\ fault' = fault
    /\ UNCHANGED <<params, alive, ghost>>

read_front(i) == read_end("front", i, m_tail[i])
read_back(i) == read_end("back", i, prev_index(m_head[i]))

\* front() = v or back() = v: an assignment to the element through the
\* reference to get_storage()[k] that the call returns.  Without the assertion
\* the assignment on an empty buffer is made to a slot that holds no element,
\* which is undefined; the execution is followed no further.
write_end(op, i, k, v) ==
    /\ Running /\ alive[i]
    /\ IF ~empty(i)
       THEN /\ slots' = [slots EXCEPT ![get_storage(i)][k] = v]
            /\ UNCHANGED <<m_storage, m_head, m_tail, m_size, allocated, undestroyed>>
            /\ Returned(op, "void", v)
            /\ fault' = fault
       ELSE IF ~NDEBUG
       THEN assert_fails(op)
       ELSE IF get_storage(i) = nullptr
       THEN NullWrite(op, i)
       ELSE Returned(op, "void", v) /\ Unchanged /\ fault' = "undefined"
    /\ UNCHANGED <<params, alive, ghost>>

write_front(i, v) == write_end("front=", i, m_tail[i], v)
write_back_at_head(i, v) == write_end("back=", i, m_head[i], v)
write_back(i, v) == write_end("back=", i, prev_index(m_head[i]), v)

\* pop_back() on an empty buffer.  Without the assertion the destructor runs
\* on a slot that holds no element, which is undefined: it faults, or it
\* returns and the unsigned size wraps below zero; the execution is followed
\* no further.
pop_back_on_empty(i) ==
    /\ Running /\ alive[i]
    /\ empty(i)
    /\ IF ~NDEBUG
       THEN assert_fails("pop_back")
       ELSE \/ /\ Update(i, prev_index(m_head[i]), m_tail[i], Wrap(m_size[i] - 1), slots)
               /\ Calls(0, 1)
               /\ fault' = "undefined"
               /\ Returned("pop_back", "void", 0)
               /\ UNCHANGED <<m_storage, allocated>>
            \/ /\ fault' = "crash"
               /\ Returned("pop_back", "fault", 0)
               /\ Unchanged
    /\ UNCHANGED <<params, alive, ghost>>

pop_front_on_empty(i) ==
    /\ Running /\ alive[i]
    /\ empty(i)
    /\ IF ~NDEBUG
       THEN assert_fails("pop_front")
       ELSE \/ /\ Update(i, m_head[i], next_index(m_tail[i]), Wrap(m_size[i] - 1), slots)
               /\ Calls(0, 1)
               /\ fault' = "undefined"
               /\ Returned("pop_front", "void", 0)
               /\ UNCHANGED <<m_storage, allocated>>
            \/ /\ fault' = "crash"
               /\ Returned("pop_front", "fault", 0)
               /\ Unchanged
    /\ UNCHANGED <<params, alive, ghost>>

\* ------------------------------------------------------------- lifecycle
\* the loop of destroy_all: destruct n elements of block p starting at slot cur
RECURSIVE destroy_elements_first(_, _, _, _)
destroy_elements_first(mem, p, cur, n) ==
    IF n = 0 THEN mem ELSE destruct(mem, p, cur)

RECURSIVE destroy_elements(_, _, _, _)
destroy_elements(mem, p, cur, n) ==
    IF n = 0 THEN mem
    ELSE destroy_elements(destruct(mem, p, cur), p, next_index(cur), n - 1)

\* memory after destroy_all() of object i (which also zeroes head, tail and size)
destroy_all(mem, i) == destroy_elements(mem, get_storage(i), m_tail[i], m_size[i])

\* the element loop of the copy/move constructors and assignments: construct n
\* elements at dst[head], dst[head+1], ... from src[cur], src[cur+1], ...
RECURSIVE copy_elements_physical(_, _, _, _, _, _)
copy_elements_physical(mem, dst, head, src, cur, n) ==
    IF n = 0 THEN [mem |-> mem, head |-> head]
    ELSE copy_elements_physical(construct(mem, dst, head, mem[src][head]),
                                dst, next_index(head), src, cur, n - 1)

RECURSIVE copy_elements_stuck(_, _, _, _, _, _)
copy_elements_stuck(mem, dst, head, src, cur, n) ==
    IF n = 0 THEN [mem |-> mem, head |-> head]
    ELSE copy_elements_stuck(construct(mem, dst, head, mem[src][cur]),
                             dst, next_index(head), src, cur, n - 1)

RECURSIVE copy_elements(_, _, _, _, _, _)
copy_elements(mem, dst, head, src, cur, n) ==
    IF n = 0 THEN [mem |-> mem, head |-> head]
    ELSE copy_elements(construct(mem, dst, head, mem[src][cur]),
                       dst, next_index(head), src, next_index(cur), n - 1)

\* the block aligned_alloc returns: the lowest free one
FreshBlock == CHOOSE b \in Blocks \ allocated : \A c \in Blocks \ allocated : b <= c

\* allocate_storage() for a new object i: the storage it gets
allocate_storage(i) == IF uses_inline_storage THEN i ELSE FreshBlock

Allocated(p) ==
    /\ uses_inline_storage \/ Blocks \ allocated # {}
    /\ allocated' = IF uses_inline_storage THEN allocated ELSE allocated \cup {p}

\* deallocate_storage() of object i
deallocate_storage(i) ==
    IF uses_inline_storage \/ m_storage[i] = nullptr
    THEN allocated
    ELSE allocated \ {m_storage[i]}

DefaultConstruct(i) ==
    /\ Running /\ ~alive[i]
    /\ LET p == allocate_storage(i) IN
        /\ Allocated(p)
        /\ m_storage' = [m_storage EXCEPT ![i] = IF uses_inline_storage THEN nullptr ELSE p]
        /\ Update(i, 0, 0, 0, slots)
    /\ Calls(0, 0)
    /\ alive' = [alive EXCEPT ![i] = TRUE]
    /\ Returned("circular_buffer", "void", 0)
    /\ UNCHANGED <<params, fault, ghost>>

\* circular_buffer() where CIRCULAR_BUFFER_ALLOC has no memory to give and
\* returns a null pointer: allocate_storage() asserts m_storage != nullptr,
\* and where the assertion is compiled out the constructor returns
DefaultConstructNoMemory(i) ==
    /\ Running /\ ~alive[i]
    /\ ~uses_inline_storage
    /\ IF ~NDEBUG
       THEN assert_fails("circular_buffer") /\ alive' = alive
       ELSE /\ m_storage' = [m_storage EXCEPT ![i] = nullptr]
            /\ Update(i, 0, 0, 0, slots)
            /\ Calls(0, 0)
            /\ alive' = [alive EXCEPT ![i] = TRUE]
            /\ Returned("circular_buffer", "void", 0)
            /\ UNCHANGED <<allocated, fault>>
    /\ UNCHANGED <<params, ghost>>

\* circular_buffer(first, last), and circular_buffer(init) which delegates
\* to it: the default constructor, then push_back of every element
RangeConstructor(op, i, range) ==
    /\ Running /\ ~alive[i]
    /\ LET p == allocate_storage(i)
           r == push_back_each(Object(p, 0, 0, 0, slots), Counts(0, 0, 0), range)
       IN
        /\ Allocated(p)
        /\ m_storage' = [m_storage EXCEPT ![i] = IF uses_inline_storage THEN nullptr ELSE p]
        /\ Assign(i, r.b)
    /\ alive' = [alive EXCEPT ![i] = TRUE]
    /\ ReturnedFor(op, "void", range, Counts(0, 0, 0))
    /\ UNCHANGED <<params, fault, ghost>>

RangeConstruct(i, range) == RangeConstructor("range_construct", i, range)
InitListConstruct(i, init) == RangeConstructor("init_list_construct", i, init)

\* circular_buffer(value): the default constructor, then the loop
\* for (size_type i = 0; i < Capacity; ++i) push_back_unchecked(value),
\* size_type being IndexType
RECURSIVE fill_each_short(_, _, _, _)
fill_each_short(b, counts, value, i) ==
    IF ~(i + 1 < Capacity) THEN [b |-> b, counts |-> counts]
    ELSE LET n == push_back_impl_on(b, value)
         IN  fill_each_short(n, Tally(counts, n.result), value, Wrap(i + 1))

RECURSIVE fill_each(_, _, _, _)
fill_each(b, counts, value, i) ==
    IF ~(i < Capacity) THEN [b |-> b, counts |-> counts]
    ELSE LET n == push_back_impl_on(b, value)
         IN  fill_each(n, Tally(counts, n.result), value, Wrap(i + 1))

\* the counts kept of the call are what the insertions of the loop came to
FillConstruct(i, value) ==
    /\ Running /\ ~alive[i]
    /\ LET p == allocate_storage(i)
           r == fill_each(Object(p, 0, 0, 0, slots), Counts(0, 0, 0), value, 0)
       IN
        /\ Allocated(p)
        /\ m_storage' = [m_storage EXCEPT ![i] = IF uses_inline_storage THEN nullptr ELSE p]
        /\ Assign(i, r.b)
        /\ ReturnedFor("fill_construct", "void", <<value>>, r.counts)
    /\ alive' = [alive EXCEPT ![i] = TRUE]
    /\ UNCHANGED <<params, fault, ghost>>

CopyConstruct(i, other) ==
    /\ Running /\ ~alive[i] /\ alive[other]
    /\ LET p == allocate_storage(i)
           r == copy_elements(slots, p, 0, get_storage(other), m_tail[other], m_size[other])
       IN
        /\ Allocated(p)
        /\ m_storage' = [m_storage EXCEPT ![i] = IF uses_inline_storage THEN nullptr ELSE p]
        /\ Update(i, r.head, 0, m_size[other], r.mem)
    /\ Calls(m_size[other], 0)
    /\ alive' = [alive EXCEPT ![i] = TRUE]
    /\ Returned("copy_construct", "void", 0)
    /\ UNCHANGED <<params, fault, ghost>>

MoveConstruct(i, other) ==
    /\ Running /\ ~alive[i] /\ alive[other]
    /\ IF uses_inline_storage
       THEN LET r == copy_elements(slots, i, 0, get_storage(other), m_tail[other], m_size[other])
                mem == destroy_elements(r.mem, get_storage(other), m_tail[other], m_size[other])
            IN  /\ m_head' = [m_head EXCEPT ![i] = r.head, ![other] = 0]
                /\ m_tail' = [m_tail EXCEPT ![i] = 0, ![other] = 0]
                /\ m_size' = [m_size EXCEPT ![i] = m_size[other], ![other] = 0]
                /\ slots' = mem
                /\ Calls(m_size[other], m_size[other])
                /\ UNCHANGED <<m_storage, allocated>>
       ELSE /\ m_storage' = [m_storage EXCEPT ![i] = m_storage[other], ![other] = nullptr]
            /\ m_head' = [m_head EXCEPT ![i] = m_head[other], ![other] = 0]
            /\ m_tail' = [m_tail EXCEPT ![i] = m_tail[other], ![other] = 0]
            /\ m_size' = [m_size EXCEPT ![i] = m_size[other], ![other] = 0]
            /\ Calls(0, 0)
            /\ UNCHANGED <<slots, allocated>>
    /\ alive' = [alive EXCEPT ![i] = TRUE]
    /\ Returned("move_construct", "void", 0)
    /\ UNCHANGED <<params, fault, ghost>>

Destructor(i) ==
    /\ Running /\ alive[i]
    /\ LET mem == destroy_all(slots, i) IN
        /\ Update(i, 0, 0, 0,
                  IF uses_inline_storage \/ m_storage[i] = nullptr THEN mem
                  ELSE [mem EXCEPT ![m_storage[i]] = RawBlock])
        /\ allocated' = deallocate_storage(i)
        /\ m_storage' = [m_storage EXCEPT ![i] = nullptr]
    /\ Calls(0, m_size[i])
    /\ alive' = [alive EXCEPT ![i] = FALSE]
    /\ Returned("destructor", "void", 0)
    /\ UNCHANGED <<params, fault, ghost>>

CopyAssign_no_self_check(i, other) ==
    /\ Running /\ alive[i] /\ alive[other]
    /\ IF get_storage(i) = nullptr /\ i # other /\ m_size[other] > 0
       THEN NullWrite("copy_assign", i)
       ELSE LET n == IF i = other THEN 0 ELSE m_size[other]
                r == copy_elements(destroy_all(slots, i), get_storage(i), 0,
                                   get_storage(other), IF i = other THEN 0 ELSE m_tail[other], n)
            IN  /\ Update(i, r.head, 0, n, r.mem)
                /\ Calls(n, m_size[i])
                /\ Returned("copy_assign", "void", 0)
                /\ UNCHANGED <<m_storage, allocated, fault>>
    /\ UNCHANGED <<params, alive, ghost>>

CopyAssign(i, other) ==
    /\ Running /\ alive[i] /\ alive[other]
    /\ IF i = other
       THEN UNCHANGED <<m_storage, m_head, m_tail, m_size, slots, allocated, fault, undestroyed>>
            /\ Returned("copy_assign", "void", 0)
       ELSE IF get_storage(i) = nullptr /\ m_size[other] > 0
       THEN NullWrite("copy_assign", i)
       ELSE LET r == copy_elements(destroy_all(slots, i), get_storage(i), 0,
                                   get_storage(other), m_tail[other], m_size[other])
            IN  /\ Update(i, r.head, 0, m_size[other], r.mem)
                /\ Calls(m_size[other], m_size[i])
                /\ Returned("copy_assign", "void", 0)
                /\ UNCHANGED <<m_storage, allocated, fault>>
    /\ UNCHANGED <<params, alive, ghost>>

MoveAssign_keeping_block(i, other) ==
    /\ Running /\ alive[i] /\ alive[other]
    /\ IF i = other
       THEN UNCHANGED <<m_storage, m_head, m_tail, m_size, slots, allocated, undestroyed>>
       ELSE IF uses_inline_storage
       THEN LET r == copy_elements(destroy_all(slots, i), i, 0,
                                   get_storage(other), m_tail[other], m_size[other])
                mem == destroy_elements(r.mem, get_storage(other), m_tail[other], m_size[other])
            IN  /\ m_head' = [m_head EXCEPT ![i] = r.head, ![other] = 0]
                /\ m_tail' = [m_tail EXCEPT ![i] = 0, ![other] = 0]
                /\ m_size' = [m_size EXCEPT ![i] = m_size[other], ![other] = 0]
                /\ slots' = mem
                /\ Calls(m_size[other], m_size[i] + m_size[other])
                /\ UNCHANGED <<m_storage, allocated>>
       ELSE LET mem == destroy_all(slots, i) IN
            /\ slots' = mem
            /\ allocated' = allocated
            /\ m_storage' = [m_storage EXCEPT ![i] = m_storage[other], ![other] = nullptr]
            /\ m_head' = [m_head EXCEPT ![i] = m_head[other], ![other] = 0]
            /\ m_tail' = [m_tail EXCEPT ![i] = m_tail[other], ![other] = 0]
            /\ m_size' = [m_size EXCEPT ![i] = m_size[other], ![other] = 0]
            /\ Calls(0, m_size[i])
    /\ Returned("move_assign", "void", 0)
    /\ UNCHANGED <<params, alive, fault, ghost>>

MoveAssign(i, other) ==
    /\ Running /\ alive[i] /\ alive[other]
    /\ IF i = other
       THEN UNCHANGED <<m_storage, m_head, m_tail, m_size, slots, allocated, undestroyed>>
       ELSE IF uses_inline_storage
       THEN LET r == copy_elements(destroy_all(slots, i), i, 0,
                                   get_storage(other), m_tail[other], m_size[other])
                mem == destroy_elements(r.mem, get_storage(other), m_tail[other], m_size[other])
            IN  /\ m_head' = [m_head EXCEPT ![i] = r.head, ![other] = 0]
                /\ m_tail' = [m_tail EXCEPT ![i] = 0, ![other] = 0]
                /\ m_size' = [m_size EXCEPT ![i] = m_size[other], ![other] = 0]
                /\ slots' = mem
                /\ Calls(m_size[other], m_size[i] + m_size[other])
                /\ UNCHANGED <<m_storage, allocated>>
       ELSE LET mem == destroy_all(slots, i) IN
            /\ slots' = IF m_storage[i] = nullptr THEN mem
                        ELSE [mem EXCEPT ![m_storage[i]] = RawBlock]
            /\ allocated' = deallocate_storage(i)
            /\ m_storage' = [m_storage EXCEPT ![i] = m_storage[other], ![other] = nullptr]
            /\ m_head' = [m_head EXCEPT ![i] = m_head[other], ![other] = 0]
            /\ m_tail' = [m_tail EXCEPT ![i] = m_tail[other], ![other] = 0]
            /\ m_size' = [m_size EXCEPT ![i] = m_size[other], ![other] = 0]
            /\ Calls(0, m_size[i])
    /\ Returned("move_assign", "void", 0)
    /\ UNCHANGED <<params, alive, fault, ghost>>

clear_size_only(i) ==
    /\ Running /\ alive[i]
    /\ Update(i, m_head[i], m_tail[i], 0, destroy_all(slots, i))
    /\ Calls(0, m_size[i])
    /\ Returned("clear", "void", 0)
    /\ UNCHANGED <<params, alive, m_storage, allocated, fault, ghost>>

clear(i) ==
    /\ Running /\ alive[i]
    /\ Update(i, 0, 0, 0, destroy_all(slots, i))
    /\ Calls(0, m_size[i])
    /\ Returned("clear", "void", 0)
    /\ UNCHANGED <<params, alive, m_storage, allocated, fault, ghost>>

\* ---------------------------------------------------------------- iterators
\* an iterator_impl: the container it belongs to and a logical index
iterator(container, index) == [m_container |-> container, m_index |-> index]

begin(i) == iterator(i, 0)
end_at_capacity(i) == iterator(i, Capacity)
end(i) == iterator(i, m_size[i])

\* the expression _verify_valid asserts
verify_valid(it) ==
    it.m_container # nullptr /\ it.m_index <= m_size[it.m_container]

\* what an operator of an iterator comes to: a value, the abort() of a
\* failed assertion, or a read that is undefined
Outcome(result, value, index) == [result |-> result, value |-> value, index |-> index]
Aborts == Outcome("abort", 0, 0)
Bool(b) == IF b THEN 1 ELSE 0

\* operator++, operator--, operator+=(n) and operator+(n) on the index
iter_inc(it) == [it EXCEPT !.m_index = Wrap(@ + 1)]
iter_dec(it) == [it EXCEPT !.m_index = Wrap(@ - 1)]
iter_plus_magnitude(it, n) == [it EXCEPT !.m_index = Wrap(@ + (IF n < 0 THEN -n ELSE n))]
iter_plus(it, n) == [it EXCEPT !.m_index = Wrap(@ + n)]

\* operator*
deref_within_capacity(it) ==
    IF it.m_container # nullptr /\ it.m_index < Capacity
    THEN Outcome("value", ElemAt(it.m_container, it.m_index), it.m_index)
    ELSE Aborts

deref_physical(it) ==
    IF verify_valid(it) /\ it.m_index < m_size[it.m_container]
    THEN Outcome("value", slots[get_storage(it.m_container)][it.m_index], it.m_index)
    ELSE Aborts

deref(it) ==
    IF verify_valid(it) /\ it.m_index < m_size[it.m_container]
    THEN Outcome("value", ElemAt(it.m_container, it.m_index), it.m_index)
    ELSE IF ~NDEBUG THEN Aborts
    ELSE Outcome("undefined", 0, it.m_index)

\* operator-(other)
iter_diff(it, other) ==
    IF ~NDEBUG /\ ~(verify_valid(it) /\ verify_valid(other)
                    /\ it.m_container = other.m_container)
    THEN Aborts
    ELSE Outcome("value", it.m_index - other.m_index, 0)

\* operator== and operator!=
iter_eq(it, other) == it.m_container = other.m_container /\ it.m_index = other.m_index
iter_ne(it, other) == ~iter_eq(it, other)

\* operator<
iter_lt(it, other) ==
    IF ~NDEBUG /\ it.m_container # other.m_container
    THEN Aborts
    ELSE Outcome("value", Bool(it.m_index < other.m_index), 0)

\* !outcome, where the call returned
Not(outcome) ==
    IF outcome.result = "value" THEN Outcome("value", 1 - outcome.value, 0) ELSE outcome

\* operator<=, operator> and operator>=
iter_le(it, other) == Not(iter_lt(other, it))
iter_gt(it, other) == iter_lt(other, it)
iter_ge(it, other) == Not(iter_lt(it, other))

\* std::reverse_iterator over an iterator: *r is *--tmp of a copy of
\* current, ++r is --current
reverse_iterator(it) == [current |-> it]
rbegin_at_begin(i) == reverse_iterator(begin(i))
rbegin(i) == reverse_iterator(end(i))
rend(i) == reverse_iterator(begin(i))
reverse_deref(r) == deref(iter_dec(r.current))
reverse_inc(r) == reverse_iterator(iter_dec(r.current))

\* for (it = first; it != last; ++it): what *it gave, in the order visited
RECURSIVE for_each(_, _, _)
for_each(it, last, seen) ==
    IF ~iter_ne(it, last) THEN seen
    ELSE for_each(iter_inc(it), last, Append(seen, deref(it)))

\* for (r = first; r != last; ++r) over reverse iterators
RECURSIVE for_each_reverse(_, _, _)
for_each_reverse(r, last, seen) ==
    IF ~iter_ne(r.current, last.current) THEN seen
    ELSE for_each_reverse(reverse_inc(r), last, Append(seen, reverse_deref(r)))

\* a loop over the elements returned the values it read, or stopped at a
\* failed assertion
Visited(op, seen) ==
    LET ok == \A k \in DOMAIN seen : seen[k].result = "value" IN
    /\ ReturnedFor(op, IF ok THEN "void" ELSE "abort",
                   [k \in DOMAIN seen |-> seen[k].value], Counts(0, 0, 0))
    /\ fault' = IF ok THEN fault ELSE "assert"
    /\ Unchanged
    /\ UNCHANGED <<params, alive, ghost>>

\* the loop from begin() to end()
traverse(i) ==
    /\ Running /\ alive[i]
    /\ Visited("begin..end", for_each(begin(i), end(i), <<>>))

\* the loop from rbegin() to rend()
traverse_reverse(i) ==
    /\ Running /\ alive[i]
    /\ Visited("rbegin..rend", for_each_reverse(rbegin(i), rend(i), <<>>))

\* a call of an operator of an iterator came to outcome
Came(op, outcome) ==
    /\ Returned(op, outcome.result, outcome.value)
    /\ fault' = IF outcome.result = "abort" THEN "assert" ELSE fault
    /\ Unchanged
    /\ UNCHANGED <<params, alive, ghost>>

\* end() - begin()
distance(i) ==
    /\ Running /\ alive[i]
    /\ Came("distance", iter_diff(end(i), begin(i)))

\* *(begin() + n), which is begin()[n]
dereference(i, n) ==
    /\ Running /\ alive[i]
    /\ LET outcome == deref(iter_plus(begin(i), n)) IN
        IF outcome.result # "undefined" THEN Came("operator*", outcome)
        ELSE IF get_storage(i) = nullptr
        THEN /\ Returned("operator*", "fault", 0) /\ Unchanged /\ fault' = "null_read"
             /\ UNCHANGED <<params, alive, ghost>>
        ELSE /\ \E g \in ReadSlot(i, physical_index(i, outcome.index)) :
                    Returned("operator*", "value", g)
             /\ Unchanged /\ fault' = fault
             /\ UNCHANGED <<params, alive, ghost>>

\* the caller keeps it: the call leaves the containers as they are
Kept(op, it) ==
    /\ held' = it
    /\ Returned(op, "void", 0)
    /\ Unchanged
    /\ UNCHANGED <<params, alive, fault, pushes, drops, accepted, window>>

\* it = begin() + k, for a position k up to end()
take(i, k) ==
    /\ Running /\ alive[i]
    /\ k <= m_size[i]
    /\ Kept("begin", iterator(i, k))

\* it = iterator(): no container
take_default ==
    /\ Running
    /\ Kept("iterator", iterator(nullptr, 0))

\* *it on the iterator the caller kept, whatever was called since
deref_held ==
    /\ Running
    /\ LET outcome == deref(held) IN
        IF outcome.result # "undefined" THEN Came("operator*", outcome)
        ELSE IF held.m_container = nullptr \/ get_storage(held.m_container) = nullptr
        THEN /\ Returned("operator*", "fault", 0) /\ Unchanged /\ fault' = "null_read"
             /\ UNCHANGED <<params, alive, ghost>>
        ELSE /\ \E g \in ReadSlot(held.m_container,
                                  physical_index(held.m_container, outcome.index)) :
                    Returned("operator*", "value", g)
             /\ Unchanged /\ fault' = fault
             /\ UNCHANGED <<params, alive, ghost>>

\* an operator that moves the iterator the caller kept: _verify_valid on the
\* iterator as it is, then the new index
Moved(op, n, it) ==
    /\ Running
    /\ IF ~NDEBUG /\ ~verify_valid(held)
       THEN assert_fails(op) /\ held' = held
       ELSE /\ held' = it
            /\ Returned(op, "void", n)
            /\ Unchanged
            /\ fault' = fault
    /\ UNCHANGED <<params, alive, pushes, drops, accepted, window>>

\* it += n, and it -= n which is it += -n
advance(n) == Moved("+=", n, iter_plus(held, n))

\* ++it and --it
increment == Moved("++", 1, iter_inc(held))
decrement == Moved("--", -1, iter_dec(held))

\* the signed distances a caller moves an iterator by
Distances == (-MaxCapacity)..MaxCapacity

\* capacity(), size(), empty() and full(): what each returns
Observers == {"capacity", "size", "empty", "full"}

Observed(op, i) ==
    CASE op = "capacity" -> Capacity
      [] op = "size" -> size(i)
      [] op = "empty" -> Bool(empty(i))
      [] op = "full" -> Bool(full(i))

observe(op, i) ==
    /\ Running /\ alive[i]
    /\ Returned(op, "value", Observed(op, i))
    /\ Unchanged
    /\ UNCHANGED <<params, alive, fault, ghost>>

\* the iterators a caller holds: begin() + k of a living object, up to end()
Iterators ==
    {it \in [m_container : {i \in BufIds : alive[i]}, m_index : 0..Capacity] :
        it.m_index <= m_size[it.m_container]}

Comparisons == {"==", "!=", "<", "<=", ">", ">=", "-"}

\* it op other
compared(op, it, other) ==
    CASE op = "==" -> Outcome("value", Bool(iter_eq(it, other)), 0)
      [] op = "!=" -> Outcome("value", Bool(iter_ne(it, other)), 0)
      [] op = "<" -> iter_lt(it, other)
      [] op = "<=" -> iter_le(it, other)
      [] op = ">" -> iter_gt(it, other)
      [] op = ">=" -> iter_ge(it, other)
      [] op = "-" -> iter_diff(it, other)

compare(op, it, other) ==
    /\ Running
    /\ Came(op, compared(op, it, other))

\* ---------------------------------------------------------- specification
\* One object of the type has been default-constructed.
Constructed ==
    /\ Capacity \in 1..MaxCapacity
    /\ Policy \in {"overwrite", "discard"}
    /\ InlineThreshold \in {SmallInlineThreshold, DefaultInlineThreshold}
    /\ alive = [i \in BufIds |-> i = 1]
    /\ m_storage = [i \in BufIds |-> IF i = 1 /\ Capacity > InlineThreshold THEN 1 ELSE nullptr]
    /\ m_head = [i \in BufIds |-> 0]
    /\ m_tail = [i \in BufIds |-> 0]
    /\ m_size = [i \in BufIds |-> 0]
    /\ slots = [b \in Blocks |-> [k \in 0..(Capacity - 1) |-> Dead]]
    /\ allocated = IF Capacity > InlineThreshold THEN {1} ELSE {}
    /\ fault = "none"
    /\ undestroyed = 0
    /\ call = [op |-> "circular_buffer", result |-> "void", value |-> 0,
               range |-> <<>>, counts |-> Counts(0, 0, 0)]
    /\ pushes = 0 /\ drops = 0 /\ accepted = 0 /\ window = <<>>
    /\ held = iterator(nullptr, 0)

\* Where every call meets its precondition no assertion fails and the two
\* builds run the same code: the build with assertions is taken.
Init == Constructed /\ NDEBUG = FALSE

NextPair ==
    \/ \E i \in BufIds, v \in PairVals : push_back(i, v)
    \/ \E i \in BufIds, v \in PairVals : push_front(i, v)
    \/ \E i \in BufIds : pop_back(i)
    \/ \E i \in BufIds : pop_front(i)
    \/ \E i \in BufIds : clear(i)
    \/ \E i \in BufIds : DefaultConstruct(i)
    \/ \E i \in BufIds : Destructor(i)
    \/ \E i \in BufIds, other \in BufIds : CopyConstruct(i, other)
    \/ \E i \in BufIds, other \in BufIds : MoveConstruct(i, other)
    \/ \E i \in BufIds, other \in BufIds : CopyAssign(i, other)
    \/ \E i \in BufIds, other \in BufIds : MoveAssign(i, other)

\* the life of one container object
Next ==
    \/ \E v \in Vals : push_back(1, v)
    \/ \E v \in Vals : push_front(1, v)
    \/ \E v \in Vals : emplace_back(1, v)
    \/ \E v \in Vals : emplace_front(1, v)
    \/ pop_back(1)
    \/ pop_front(1)
    \/ pop_back_safe(1)
    \/ pop_front_safe(1)
    \/ clear(1)

Spec == Init /\ [][Next]_vars

\* two container objects and the copies and moves between them
InitPair == Init /\ Capacity <= MaxPairCapacity

SpecPair == InitPair /\ [][NextPair]_vars

\* calls of one object in both builds, whether or not their preconditions
\* are met
InitAccess == Constructed /\ NDEBUG \in BOOLEAN

NextAccess ==
    \/ \E v \in Vals : push_back(1, v)
    \/ \E v \in Vals : push_front(1, v)
    \/ pop_back(1)
    \/ pop_front(1)
    \/ pop_back_on_empty(1)
    \/ pop_front_on_empty(1)
    \/ \E index \in Indexes : at(1, index)
    \/ \E index \in Indexes : subscript(1, index)
    \/ read_front(1)
    \/ read_back(1)

SpecAccess == InitAccess /\ [][NextAccess]_vars

\* one object, built from ranges and fed with ranges
InitBulk == Init /\ Capacity <= MaxBulkCapacity

NextBulk ==
    \/ \E range \in Ranges : push_back_range(1, range)
    \/ \E range \in Ranges : push_front_range(1, range)
    \/ \E range \in Ranges : RangeConstruct(1, range)
    \/ \E init \in Ranges : InitListConstruct(1, init)
    \/ \E v \in PairVals : push_back(1, v)
    \/ \E v \in PairVals : push_front(1, v)
    \/ pop_back(1)
    \/ pop_front(1)
    \/ Destructor(1)

SpecBulk == InitBulk /\ [][NextBulk]_vars

\* one object, each insertion with and without its result
NextUnchecked ==
    \/ \E v \in Vals : push_back(1, v)
    \/ \E v \in Vals : push_front(1, v)
    \/ \E v \in Vals : emplace_back(1, v)
    \/ \E v \in Vals : emplace_front(1, v)
    \/ \E v \in Vals : push_back_unchecked(1, v)
    \/ \E v \in Vals : push_front_unchecked(1, v)
    \/ \E v \in Vals : emplace_back_unchecked(1, v)
    \/ \E v \in Vals : emplace_front_unchecked(1, v)
    \/ pop_back(1)
    \/ pop_front(1)

SpecUnchecked == Init /\ [][NextUnchecked]_vars

\* one object, the iterators over it and the references to its ends, in
\* both builds
NextIter ==
    \/ \E v \in Vals : push_back(1, v)
    \/ \E v \in Vals : push_front(1, v)
    \/ pop_back(1)
    \/ pop_front(1)
    \/ traverse(1)
    \/ traverse_reverse(1)
    \/ distance(1)
    \/ \E n \in Indexes : dereference(1, n)
    \/ read_front(1)
    \/ read_back(1)
    \/ \E v \in Vals : write_front(1, v)
    \/ \E v \in Vals : write_back(1, v)
    \/ \E op \in Observers : observe(op, 1)

SpecIter == InitAccess /\ [][NextIter]_vars

\* two objects and the comparisons of their iterators
NextIterPair ==
    \/ \E i \in BufIds : push_back(i, AnyVal)
    \/ \E i \in BufIds : DefaultConstruct(i)
    \/ \E op \in Comparisons, it \in Iterators, other \in Iterators : compare(op, it, other)

SpecIterPair == InitPair /\ [][NextIterPair]_vars

\* two objects in both builds, the second constructed with or without memory
\* for its block
InitAlloc == InitAccess /\ Capacity <= MaxPairCapacity

NextAlloc ==
    \/ \E i \in BufIds, v \in PairVals : push_back(i, v)
    \/ \E i \in BufIds : pop_front(i)
    \/ \E i \in BufIds : DefaultConstruct(i)
    \/ \E i \in BufIds : DefaultConstructNoMemory(i)
    \/ \E i \in BufIds : Destructor(i)

SpecAlloc == InitAlloc /\ [][NextAlloc]_vars

\* ------------------------------------------------ the index arithmetic
\* the capacities the index arithmetic is applied at: all that the
\* static_assert on Capacity accepts, up to the largest value of IndexType
IndexCapacities == 1..(IndexModulus - 1)

\* a call of one of the index functions: its arguments and what it returned
Applied(op, args, value) ==
    /\ call' = [op |-> op, result |-> "value", value |-> value,
                range |-> args, counts |-> Counts(0, 0, 0)]
    /\ Unchanged
    /\ UNCHANGED <<params, alive, fault, ghost>>

\* next_index(m_tail), as pop_front calls it
apply_next_index(i) ==
    /\ Running /\ alive[i]
    /\ Applied("next_index", <<m_tail[i]>>, next_index(m_tail[i]))

\* prev_index(m_tail), as push_front calls it
apply_prev_index(i) ==
    /\ Running /\ alive[i]
    /\ Applied("prev_index", <<m_tail[i]>>, prev_index(m_tail[i]))

\* add_index(m_tail, offset)
apply_add_index(i, offset) ==
    /\ Running /\ alive[i]
    /\ Applied("add_index", <<m_tail[i], offset>>, add_index(m_tail[i], offset))

\* physical_index(logical_index), with its assertion
apply_physical_index(i, logical_index) ==
    /\ Running /\ alive[i]
    /\ logical_index < m_size[i]
    /\ Applied("physical_index", <<logical_index>>, physical_index(i, logical_index))

\* A full buffer of one object whose tail is anywhere in the block, as
\* Capacity + tail calls of push_back leave it under the overwrite policy.
InitIndex ==
    /\ Capacity \in IndexCapacities
    /\ Policy = "overwrite"
    /\ InlineThreshold = DefaultInlineThreshold
    /\ NDEBUG = FALSE
    /\ alive = [i \in BufIds |-> i = 1]
    /\ m_storage = [i \in BufIds |-> IF i = 1 /\ Capacity > InlineThreshold THEN 1 ELSE nullptr]
    /\ \E tail \in 0..(Capacity - 1) :
        /\ m_head = [i \in BufIds |-> IF i = 1 THEN tail ELSE 0]
        /\ m_tail = [i \in BufIds |-> IF i = 1 THEN tail ELSE 0]
    /\ m_size = [i \in BufIds |-> IF i = 1 THEN Capacity ELSE 0]
    /\ slots = [b \in Blocks |-> [k \in 0..(Capacity - 1) |-> IF b = 1 THEN AnyVal ELSE Dead]]
    /\ allocated = IF Capacity > InlineThreshold THEN {1} ELSE {}
    /\ fault = "none"
    /\ undestroyed = Capacity
    /\ call = [op |-> "push_back", result |-> "overwritten", value |-> 0,
               range |-> <<>>, counts |-> Counts(0, 0, 0)]
    /\ pushes = 0 /\ drops = 0 /\ accepted = 0 /\ window = <<>>
    /\ held = iterator(nullptr, 0)

NextIndex ==
    \/ apply_next_index(1)
    \/ apply_prev_index(1)
    \/ \E offset \in 0..(Capacity - 1) : apply_add_index(1, offset)
    \/ \E logical_index \in 0..(Capacity - 1) : apply_physical_index(1, logical_index)

SpecIndex == InitIndex /\ [][NextIndex]_vars

\* an iterator kept while its container is changed or moved from
NextStale ==
    \/ \E v \in PairVals : push_back(1, v)
    \/ pop_back(1)
    \/ pop_front(1)
    \/ pop_back_safe(1)
    \/ pop_front_safe(1)
    \/ clear(1)
    \/ MoveConstruct(2, 1)
    \/ \E i \in BufIds, k \in 0..Capacity : take(i, k)
    \/ take_default
    \/ deref_held

SpecStale == InitPair /\ [][NextStale]_vars

\* one object and an iterator the caller moves and compares
NextArith ==
    \/ push_back(1, AnyVal)
    \/ pop_front(1)
    \/ \E k \in 0..Capacity : take(1, k)
    \/ \E n \in Distances : advance(n)
    \/ increment
    \/ decrement
    \/ \E op \in Comparisons, other \in Iterators : compare(op, held, other)

SpecArith == Init /\ [][NextArith]_vars

\* ------------------------------------------------------ fill construction
\* One object of a type of any capacity IndexType admits has been
\* default-constructed; it is destroyed and constructed again filled, and
\* popped at both ends.
InitFill ==
    /\ Capacity \in IndexCapacities
    /\ Policy \in {"overwrite", "discard"}
    /\ InlineThreshold \in {SmallInlineThreshold, DefaultInlineThreshold}
    /\ NDEBUG = FALSE
    /\ alive = [i \in BufIds |-> i = 1]
    /\ m_storage = [i \in BufIds |-> IF i = 1 /\ Capacity > InlineThreshold THEN 1 ELSE nullptr]
    /\ m_head = [i \in BufIds |-> 0]
    /\ m_tail = [i \in BufIds |-> 0]
    /\ m_size = [i \in BufIds |-> 0]
    /\ slots = [b \in Blocks |-> [k \in 0..(Capacity - 1) |-> Dead]]
    /\ allocated = IF Capacity > InlineThreshold THEN {1} ELSE {}
    /\ fault = "none"
    /\ undestroyed = 0
    /\ call = [op |-> "circular_buffer", result |-> "void", value |-> 0,
               range |-> <<>>, counts |-> Counts(0, 0, 0)]
    /\ pushes = 0 /\ drops = 0 /\ accepted = 0 /\ window = <<>>
    /\ held = iterator(nullptr, 0)

NextFill ==
    \/ \E v \in PairVals : FillConstruct(1, v)
    \/ Destructor(1)
    \/ pop_back(1)
    \/ pop_front(1)

SpecFill == InitFill /\ [][NextFill]_vars

\* ------------------------------------------------ throwing constructors
\* One container of a T whose constructors may throw; the caller catches the
\* exception and goes on. A call on a slot that is counted and holds no
\* element is undefined: the behaviour is followed up to such a state.
NextThrow ==
    \/ \E v \in PairVals : Intact(1) /\ push_back(1, v)
    \/ \E v \in PairVals : Intact(1) /\ push_front(1, v)
    \/ Intact(1) /\ pop_back(1)
    \/ Intact(1) /\ pop_front(1)
    \/ Intact(1) /\ push_back_throwing(1)
    \/ Intact(1) /\ push_front_throwing(1)
    \/ Intact(1) /\ emplace_back_throwing(1)
    \/ Intact(1) /\ emplace_front_throwing(1)

SpecThrow == Init /\ [][NextThrow]_vars

\* ------------------------------------------------------------ round trips
\* One container, filled and emptied at both ends, on which the caller also
\* makes an insertion and a removal in one go.
NextRound ==
    \/ \E v \in Vals : push_back(1, v)
    \/ \E v \in Vals : push_front(1, v)
    \/ pop_back(1)
    \/ pop_front(1)
    \/ \E v \in Vals : push_back_pop_back(1, v)
    \/ \E v \in Vals : push_front_pop_front(1, v)
    \/ \E v \in Vals : push_back_pop_front(1, v)

SpecRound == Init /\ [][NextRound]_vars

\* ------------------------------------------------ sliding-window use
\* push_back and pop_front on one object, with a record of what was pushed:
\* window is the bounded queue the calls describe, kept without any index
\* arithmetic
WindowPush(v) ==
    /\ pushes + drops < MaxOps
    /\ push_back_impl("push_back", 1, v)
    /\ pushes' = pushes + 1
    /\ accepted' = IF Len(window) < Capacity THEN accepted + 1 ELSE accepted
    /\ window' = IF Len(window) < Capacity THEN Append(window, v)
                 ELSE IF Policy = "overwrite" THEN Append(Tail(window), v)
                 ELSE window
    /\ drops' = drops
    /\ held' = held

WindowDrop ==
    /\ pushes + drops < MaxOps
    /\ pop_front_impl("pop_front", 1, "void", 0)
    /\ drops' = drops + 1
    /\ window' = Tail(window)
    /\ UNCHANGED <<pushes, accepted, held>>

NextWindow ==
    \/ \E v \in Vals : WindowPush(v)
    \/ WindowDrop

SpecWindow == Init /\ [][NextWindow]_vars

\* ------------------------------------------------- reference sequences
\* a bounded double-ended sequence, with no cursors and no wraparound
Front(s) == SubSeq(s, 1, Len(s) - 1)
Last(s) == s[Len(s)]

RefPushBack(s, v) ==
    IF Len(s) < Capacity THEN Append(s, v)
    ELSE IF Policy = "overwrite" THEN Append(Tail(s), v)
    ELSE s

RefPushFront(s, v) ==
    IF Len(s) < Capacity THEN <<v>> \o s
    ELSE IF Policy = "overwrite" THEN <<v>> \o Front(s)
    ELSE s

\* everything of an object that a caller can observe or that an operation uses
State(i) == <<m_storage[i], m_head[i], m_tail[i], m_size[i]>>

C2_PushBackOverwritesOldest ==
    [][\A v \in Vals :
         (/\ call'.op = "push_back" /\ Policy = "overwrite" /\ m_size[1] = Capacity
          /\ push_back(1, v)) =>
            /\ call'.result = "overwritten"
            /\ m_size'[1] = Capacity
            /\ Contents(1)' = Append(Tail(Contents(1)), v)]_vars

\* a push_back has overwritten the oldest element of a full buffer
C2_Witness ==
    /\ call.op = "push_back" /\ call.result = "overwritten"
    /\ Policy = "overwrite" /\ m_size[1] = Capacity
    /\ m_tail[1] = next_index(0)

\* ==================================================================== C3
\* C3: under the discard policy push_back, push_front, emplace_back and
\* emplace_front on a full buffer return 'discarded' and change neither head,
\* tail, size nor any slot.
C3_DiscardLeavesFullBufferAlone ==
    [][\A v \in Vals :
         (/\ Policy = "discard" /\ m_size[1] = Capacity
          /\ \/ push_back(1, v) \/ push_front(1, v)
             \/ emplace_back(1, v) \/ emplace_front(1, v)) =>
            /\ call'.result = "discarded"
            /\ UNCHANGED <<m_storage, m_head, m_tail, m_size, slots>>]_vars

\* an insertion at the front of a full buffer has been discarded
C3_Witness ==
    /\ call.op = "emplace_front" /\ call.result = "discarded"
    /\ Policy = "discard" /\ m_size[1] = Capacity

C5_Step ==
    /\ \A v \in Vals : call'.op = "push_back" /\ push_back(1, v) =>
                            Contents(1)' = RefPushBack(Contents(1), v)
    /\ \A v \in Vals : call'.op = "push_front" /\ push_front(1, v) =>
                            Contents(1)' = RefPushFront(Contents(1), v)
    /\ call'.op = "pop_back" /\ pop_back(1) => Contents(1)' = Front(Contents(1))
    /\ call'.op = "pop_front" /\ pop_front(1) => Contents(1)' = Tail(Contents(1))
    /\ call'.op = "clear" /\ clear(1) => Contents(1)' = <<>>

C5_RefinesBoundedDeque ==
    /\ [](m_size[1] \in 0..Capacity)
    /\ [][C5_Step]_vars

\* a buffer of a capacity that is not a power of two whose live range wraps
\* past the end of the storage, reached by a removal
C5_Witness ==
    /\ ~IsPowerOfTwo
    /\ call.op = "pop_front"
    /\ m_size[1] = Capacity - 1 /\ m_tail[1] = Capacity - 1
    /\ m_head[1] < m_tail[1]

\* ==================================================================== C7
\* C7: pop_back_safe / pop_front_safe on an empty buffer return no value and
\* change nothing; on a non-empty buffer they return the element back() /
\* front() refers to, which is the last / first element of the contents,
\* decrement size by one, retire that element's slot and leave the other
\* elements in order, moving only the cursor of their own end.
C7_SafeBack ==
    call'.op = "pop_back_safe" /\ pop_back_safe(1) =>
        IF m_size[1] = 0
        THEN /\ call'.result = "nullopt"
             /\ UNCHANGED <<m_storage, m_head, m_tail, m_size, slots>>
        ELSE /\ call'.result = "value"
             /\ call'.value = back(1)
             /\ call'.value = Last(Contents(1))
             /\ m_size'[1] = m_size[1] - 1
             /\ Contents(1)' = Front(Contents(1))
             /\ m_tail'[1] = m_tail[1]
             /\ m_head'[1] = (m_head[1] + Capacity - 1) % Capacity
             /\ slots'[get_storage(1)][m_head'[1]] = Dead

C7_SafeFront ==
    call'.op = "pop_front_safe" /\ pop_front_safe(1) =>
        IF m_size[1] = 0
        THEN /\ call'.result = "nullopt"
             /\ UNCHANGED <<m_storage, m_head, m_tail, m_size, slots>>
        ELSE /\ call'.result = "value"
             /\ call'.value = front(1)
             /\ call'.value = Head(Contents(1))
             /\ m_size'[1] = m_size[1] - 1
             /\ Contents(1)' = Tail(Contents(1))
             /\ m_head'[1] = m_head[1]
             /\ m_tail'[1] = (m_tail[1] + 1) % Capacity
             /\ slots'[get_storage(1)][m_tail[1]] = Dead

C7_SafeRemoval == [][C7_SafeBack /\ C7_SafeFront]_vars

\* pop_back_safe has returned the newest element of a buffer whose head had
\* wrapped to slot 0, and elements remain
C7_Witness ==
    /\ call.op = "pop_back_safe" /\ call.result = "value" /\ call.value \in Vals
    /\ m_head[1] = Capacity - 1 /\ m_size[1] > 0 /\ Capacity > 1

\* ==================================================================== C6
\* C6 as stated: in any interleaving of push_back and pop_front, size() is
\* the number of pushes minus the number of drops, front() is the oldest
\* surviving pushed value and back() the newest.
C6_SizeIsPushesMinusDrops ==
    /\ m_size[1] = pushes - drops
    /\ m_size[1] > 0 => front(1) = Head(window) /\ back(1) = Last(window)

\* C6 as amended: size() is the number of pushes that did not find the buffer
\* full minus the number of drops (so pushes minus drops as long as no push
\* met a full buffer), front() is the oldest surviving pushed value and
\* back() the newest.
C6_SlidingWindow ==
    /\ m_size[1] = accepted - drops
    /\ accepted = pushes => m_size[1] = pushes - drops
    /\ m_size[1] = Len(window)
    /\ m_size[1] > 0 => front(1) = Head(window) /\ back(1) = Last(window)

\* the window has slid: a push met a full buffer, an element was dropped and
\* a later push_back went into the freed slot
C6_Witness ==
    /\ call.op = "push_back" /\ call.result = "inserted"
    /\ accepted < pushes /\ drops > 0
    /\ m_size[1] = Capacity /\ m_tail[1] = next_index(0)

\* ==================================================================== C8
Owns(i) == get_storage(i) # nullptr

\* C8: copy construction, and copy assignment to an object that owns storage,
\* from a source in any state give the destination the size and the elements
\* of the source in the same order and leave the source as it was; and a
\* mutation of one object changes neither the size nor the contents of the
\* other.
C8_Copy ==
    \A i \in BufIds : \A other \in BufIds \ {i} :
        (\/ call'.op = "copy_construct" /\ CopyConstruct(i, other)
         \/ call'.op = "copy_assign" /\ (Owns(i) \/ empty(other)) /\ CopyAssign(i, other)) =>
            /\ m_size'[i] = m_size[other]
            /\ Contents(i)' = Contents(other)
            /\ State(other)' = State(other)
            /\ Contents(other)' = Contents(other)

\* object i is mutated by one of its own member functions
Mutates(i) ==
    \/ call'.op = "push_back" /\ \E v \in PairVals : push_back(i, v)
    \/ call'.op = "push_front" /\ \E v \in PairVals : push_front(i, v)
    \/ call'.op = "pop_back" /\ pop_back(i)
    \/ call'.op = "pop_front" /\ pop_front(i)
    \/ call'.op = "clear" /\ clear(i)

C8_Independent ==
    \A i \in BufIds : \A j \in BufIds \ {i} :
        \/ call'.op \notin {"push_back", "push_front", "pop_back", "pop_front", "clear"}
        \/ alive[j] => State(j)' = State(j) /\ Contents(j)' = Contents(j)
        \/ ~Mutates(i)

C9_Move ==
    \A i \in BufIds : \A other \in BufIds \ {i} :
        (\/ call'.op = "move_construct" /\ MoveConstruct(i, other)
         \/ call'.op = "move_assign" /\ MoveAssign(i, other)) =>
            /\ m_size'[other] = 0
            /\ m_size'[i] = m_size[other]
            /\ Contents(i)' = Contents(other)

C9_MoveEmptiesSource == [][C9_Move]_vars

\* a move assignment has taken over a full source with distinct elements
C9_Witness ==
    /\ call.op = "move_assign"
    /\ \E i \in BufIds : \E other \in BufIds \ {i} :
        /\ alive[i] /\ alive[other]
        /\ m_size[other] = 0
        /\ m_size[i] = Capacity
        /\ \E k \in 1..Capacity : Contents(i)[k] # Contents(i)[1]

\* =================================================================== C10
\* C10: a moved-from buffer is a valid empty buffer that still owns usable
\* storage, so that the operations legal on a new empty buffer behave on it as
\* on a new one: no operation ever writes an element through a null storage
\* pointer.
C10_MovedFromIsUsable == fault # "null_write"

\* =================================================================== C11
\* the slots that hold an element constructed and not yet destroyed
LiveSlots == {bk \in Blocks \X (0..(Capacity - 1)) : slots[bk[1]][bk[2]] # Dead}

\* C11: through insertions, overwriting insertions, removals, clear, copies
\* and moves, every constructor call made on a slot is matched by exactly one
\* destructor call on it: the constructor calls not yet matched are at every
\* moment the elements live in some slot, and once every container has been
\* destroyed constructor calls and destructor calls are equal in number.
C11_ConstructionsMatchDestructions ==
    /\ undestroyed = Cardinality(LiveSlots)
    /\ (\A i \in BufIds : ~alive[i]) => undestroyed = 0

\* every container has been destroyed, the last one a heap container whose
\* block has been given back
C11_Witness ==
    /\ call.op = "destructor"
    /\ \A i \in BufIds : ~alive[i]
    /\ ~uses_inline_storage /\ allocated = {}
    /\ undestroyed = 0

\* =================================================================== C12
\* C12: at(index) with index >= size(), on an empty buffer and for indices at
\* and beyond Capacity too, raises the out-of-range error and leaves head,
\* tail, size and every slot as they were; with index < size() it returns
\* the element operator[](index) refers to, the one at position index of the
\* contents.
C12_Step ==
    \A index \in Indexes :
        call'.op = "at" /\ at(1, index) =>
            /\ UNCHANGED <<m_storage, m_head, m_tail, m_size, slots, fault>>
            /\ IF index >= size(1)
               THEN call'.result = "out_of_range"
               ELSE /\ call'.result = "value"
                    /\ call'.value = ElemAt(1, index)
                    /\ call'.value = Contents(1)[index + 1]
                    /\ call'.value \in Vals

C12_CheckedAccess == [][C12_Step]_vars

\* at(Capacity) has raised the out-of-range error on a full buffer whose
\* live range wraps
C12_Witness ==
    /\ call.op = "at" /\ call.result = "out_of_range"
    /\ m_size[1] = Capacity /\ m_tail[1] # 0
    /\ fault = "none"

\* =================================================================== C13
\* C13: on a buffer holding [e0, ..., e(n-1)], n > 0, pop_front destroys e0
\* and nothing else and leaves [e1, ..., e(n-1)], pop_back destroys e(n-1)
\* and nothing else and leaves [e0, ..., e(n-2)]; each takes one off size;
\* pop_front moves tail and not head, pop_back moves head and not tail.
C13_PopFront ==
    call'.op = "pop_front" /\ ~empty(1) /\ pop_front(1) =>
        /\ slots' = [slots EXCEPT ![get_storage(1)][m_tail[1]] = Dead]
        /\ slots[get_storage(1)][m_tail[1]] = Head(Contents(1))
        /\ undestroyed' = undestroyed - 1
        /\ Contents(1)' = Tail(Contents(1))
        /\ m_size'[1] = m_size[1] - 1
        /\ m_head'[1] = m_head[1]
        /\ m_tail'[1] = (m_tail[1] + 1) % Capacity

C13_PopBack ==
    call'.op = "pop_back" /\ ~empty(1) /\ pop_back(1) =>
        /\ slots' = [slots EXCEPT ![get_storage(1)][m_head'[1]] = Dead]
        /\ slots[get_storage(1)][m_head'[1]] = Last(Contents(1))
        /\ undestroyed' = undestroyed - 1
        /\ Contents(1)' = Front(Contents(1))
        /\ m_size'[1] = m_size[1] - 1
        /\ m_tail'[1] = m_tail[1]
        /\ m_head'[1] = (m_head[1] + Capacity - 1) % Capacity

C13_PopRemovesOneEnd == [][C13_PopFront /\ C13_PopBack]_vars

\* pop_front has removed the oldest element from the last slot of the
\* storage, so that tail wrapped to slot 0, and elements remain
C13_Witness ==
    /\ call.op = "pop_front" /\ call.result = "void"
    /\ Capacity > 1 /\ m_tail[1] = 0 /\ m_head[1] # 0 /\ m_size[1] > 0
    /\ slots[get_storage(1)][Capacity - 1] = Dead

\* =================================================================== C14
\* a call whose precondition is not met
C14_Violation ==
    \/ call'.op = "pop_back" /\ empty(1) /\ pop_back_on_empty(1)
    \/ call'.op = "pop_front" /\ empty(1) /\ pop_front_on_empty(1)
    \/ call'.op = "front" /\ empty(1) /\ read_front(1)
    \/ call'.op = "back" /\ empty(1) /\ read_back(1)
    \/ call'.op = "operator[]" /\ \E index \in Indexes : index >= size(1) /\ subscript(1, index)

\* the fatal assertion stopped the program before anything changed
C14_Asserted ==
    /\ fault' = "assert"
    /\ call'.result = "abort"
    /\ UNCHANGED <<m_storage, m_head, m_tail, m_size, slots>>

\* C14 as stated: pop_back, pop_front, front() and back() on an empty buffer
\* and operator[](index) with index >= size() trigger the fatal assertion
\* before head, tail, size or any slot changes, and no such call leads to a
\* size outside [0, Capacity].
C14_NeverTolerated ==
    /\ [](m_size[1] \in 0..Capacity)
    /\ [][C14_Violation => C14_Asserted]_vars

\* C14 as amended: that holds in a build with assertions compiled in; in a
\* build with NDEBUG no assertion is triggered by such a call.
C14_AssertedWhereCompiledIn ==
    /\ [](~NDEBUG => m_size[1] \in 0..Capacity)
    /\ [][C14_Violation => IF NDEBUG THEN fault' # "assert" ELSE C14_Asserted]_vars

\* operator[] with an index at or beyond size() has hit the assertion on a
\* buffer that holds elements
C14_Witness ==
    /\ ~NDEBUG /\ fault = "assert"
    /\ call.op = "operator[]" /\ call.result = "abort"
    /\ m_size[1] > 0 /\ m_size[1] < Capacity

\* =================================================================== C15
\* the reference sequence after push_back / push_front of each element of a
\* range, in range order
RECURSIVE RefPushBackEach(_, _)
RefPushBackEach(s, range) ==
    IF range = <<>> THEN s ELSE RefPushBackEach(RefPushBack(s, Head(range)), Tail(range))

RECURSIVE RefPushFrontEach(_, _)
RefPushFrontEach(s, range) ==
    IF range = <<>> THEN s ELSE RefPushFrontEach(RefPushFront(s, Head(range)), Tail(range))

\* C15: the range constructor and the initializer-list constructor leave the
\* buffer as default construction followed by push_back of each source
\* element in order does: a source of n <= Capacity elements is held whole
\* and in order; of a longer one the last Capacity elements are held under
\* overwrite and the first Capacity elements under discard.
C15_Step ==
    LET src == call'.range
        n == Len(src)
    IN  (\/ call'.op = "range_construct" /\ RangeConstruct(1, src)
         \/ call'.op = "init_list_construct" /\ InitListConstruct(1, src)) =>
            /\ Contents(1)' = RefPushBackEach(<<>>, src)
            /\ n <= Capacity => Contents(1)' = src /\ m_tail'[1] = 0
            /\ n > Capacity /\ Policy = "overwrite" =>
                    /\ Contents(1)' = SubSeq(src, n - Capacity + 1, n)
                    /\ m_tail'[1] = (n - Capacity) % Capacity
            /\ n > Capacity /\ Policy = "discard" =>
                    /\ Contents(1)' = SubSeq(src, 1, Capacity)
                    /\ m_tail'[1] = 0
            /\ m_size'[1] = IF n <= Capacity THEN n ELSE Capacity
            /\ m_head'[1] = (m_tail'[1] + m_size'[1]) % Capacity

C15_SeededAsPushBack == [][C15_Step]_vars

\* a buffer has been built from a list of Capacity + 1 elements that are not
\* all equal
C15_Witness ==
    /\ call.op = "init_list_construct"
    /\ Len(call.range) = Capacity + 1
    /\ \E k \in 1..Len(call.range) : call.range[k] # call.range[1]
    /\ alive[1] /\ m_size[1] = Capacity

\* =================================================================== C16
Min(a, b) == IF a < b THEN a ELSE b

\* the counts n single insertions into a buffer holding sz elements give:
\* the free slots are filled, the rest of the range meets a full buffer
RefCounts(sz, n) ==
    LET fit == Min(n, Capacity - sz)
    IN  Counts(fit,
               IF Policy = "overwrite" THEN n - fit ELSE 0,
               IF Policy = "discard" THEN n - fit ELSE 0)

\* a single push_back / push_front is the insertion the loops apply
C16_Single ==
    /\ \A v \in PairVals :
         call'.op = "push_back" /\ push_back(1, v) =>
            LET b == push_back_impl_on(This(1), v)
            IN  /\ <<m_head'[1], m_tail'[1], m_size'[1], slots'>> = <<b.head, b.tail, b.size, b.mem>>
                /\ call'.result = b.result
    /\ \A v \in PairVals :
         call'.op = "push_front" /\ push_front(1, v) =>
            LET b == push_front_impl_on(This(1), v)
            IN  /\ <<m_head'[1], m_tail'[1], m_size'[1], slots'>> = <<b.head, b.tail, b.size, b.mem>>
                /\ call'.result = b.result

\* C16: push_back_range / push_front_range over a range of n elements leave
\* the buffer as n single push_back / push_front calls in range order do (so
\* push_front_range leaves the elements in reverse order at the front); the
\* counts returned add up to n and each is the number of single insertions
\* with that outcome; what the first elements of the range did stays done
\* when later ones are discarded.
C16_Back ==
    LET range == call'.range
        n == Len(range)
        c == call'.counts
    IN  call'.op = "push_back_range" /\ push_back_range(1, range) =>
            /\ Contents(1)' = RefPushBackEach(Contents(1), range)
            /\ c.inserted_count + c.overwritten_count + c.discarded_count = n
            /\ c = RefCounts(m_size[1], n)
            /\ m_size'[1] = m_size[1] + c.inserted_count
            /\ m_head'[1] = (m_head[1] + c.inserted_count + c.overwritten_count) % Capacity
            /\ m_tail'[1] = (m_tail[1] + c.overwritten_count) % Capacity
            /\ Policy = "discard" =>
                    Contents(1)' = Contents(1) \o SubSeq(range, 1, c.inserted_count)

C16_Front ==
    LET range == call'.range
        n == Len(range)
        c == call'.counts
        Reversed(q) == [k \in 1..Len(q) |-> q[Len(q) + 1 - k]]
    IN  call'.op = "push_front_range" /\ push_front_range(1, range) =>
            /\ Contents(1)' = RefPushFrontEach(Contents(1), range)
            /\ c.inserted_count + c.overwritten_count + c.discarded_count = n
            /\ c = RefCounts(m_size[1], n)
            /\ m_size'[1] = m_size[1] + c.inserted_count
            /\ n <= Capacity - m_size[1] => Contents(1)' = Reversed(range) \o Contents(1)
            /\ Policy = "discard" =>
                    Contents(1)' = Reversed(SubSeq(range, 1, c.inserted_count)) \o Contents(1)

C17_Step ==
    \A i \in BufIds :
        (\/ call'.op = "copy_assign" /\ CopyAssign(i, i)
         \/ call'.op = "move_assign" /\ MoveAssign(i, i)) =>
            /\ UNCHANGED <<m_storage, m_head, m_tail, m_size, slots, allocated>>
            /\ Contents(i)' = Contents(i)
            /\ undestroyed' = undestroyed
            /\ fault' = "none"

C17_SelfAssignmentIsNoOp == [][C17_Step]_vars

\* the only object alive, full and with a wrapped live range, has been
\* move-assigned to itself
C17_Witness ==
    /\ call.op = "move_assign"
    /\ alive[1] /\ ~alive[2]
    /\ m_size[1] = Capacity /\ m_tail[1] # 0
    /\ \A k \in 1..Capacity : Contents(1)[k] \in PairVals

\* =================================================================== C18
\* object i is as the default constructor leaves an object: it owns storage
\* in which no slot holds an element, and head, tail and size are zero
AsConstructed(i) ==
    /\ m_head[i] = 0 /\ m_tail[i] = 0 /\ m_size[i] = 0
    /\ get_storage(i) # nullptr
    /\ \A k \in 0..(Capacity - 1) : slots[get_storage(i)][k] = Dead

\* C18: clear() in any reachable state runs the destructor of each of the
\* size() live elements once, leaves no slot holding an element, sets head,
\* tail and size to zero and so leaves the buffer as a newly constructed
\* empty buffer is, for every later operation.
C18_Step ==
    \A i \in BufIds :
        call'.op = "clear" /\ clear(i) =>
            /\ undestroyed' = undestroyed - m_size[i]
            /\ slots' = destroy_elements(slots, get_storage(i), m_tail[i], m_size[i])
            /\ AsConstructed(i)'

C18_ClearGivesNewBuffer == [][C18_Step]_vars

\* =================================================================== C19
\* C19: emplace_back / emplace_front of the arguments that construct v do
\* what push_back / push_front of v do: from the same state they return the
\* same insert_result and leave the same head, tail, size and contents, on a
\* buffer that is not full, on a full one under overwrite and on a full one
\* under discard.  Every emplace step is a step of the push of the same
\* value, and every push step a step of the emplace.
C19_Step ==
    \A v \in Vals :
        /\ call'.op = "emplace_back" /\ emplace_back(1, v) => push_back_impl("emplace_back", 1, v)
        /\ call'.op = "push_back" /\ push_back(1, v) => emplace_back_impl("push_back", 1, v)
        /\ call'.op = "emplace_front" /\ emplace_front(1, v) => push_front_impl("emplace_front", 1, v)
        /\ call'.op = "push_front" /\ push_front(1, v) => emplace_front_impl("push_front", 1, v)
        /\ call'.op = "emplace_back" /\ emplace_back(1, v) =>
                Contents(1)' = RefPushBack(Contents(1), v)
        /\ call'.op = "emplace_front" /\ emplace_front(1, v) =>
                Contents(1)' = RefPushFront(Contents(1), v)

C19_EmplaceIsPush == [][C19_Step]_vars

\* emplace_back has overwritten the oldest element of a full buffer whose
\* live range wrapped
C19_Witness ==
    /\ call.op = "emplace_back" /\ call.result = "overwritten"
    /\ m_size[1] = Capacity /\ Capacity > 1
    /\ m_tail[1] = 0 /\ m_head[1] = 0
    /\ Contents(1)[Capacity] \in Vals

\* =================================================================== C20
\* the call leaves object i with the members and the memory of the value b
Becomes(i, b) ==
    /\ m_storage'[i] = m_storage[i]
    /\ m_head'[i] = b.head /\ m_tail'[i] = b.tail /\ m_size'[i] = b.size
    /\ slots' = b.mem

\* C20: push_back_unchecked, push_front_unchecked, emplace_back_unchecked
\* and emplace_front_unchecked leave the buffer in the state push_back,
\* push_front, emplace_back and emplace_front leave it in from the same
\* state, under both policies, full or not: the call that returns the
\* insert_result and the call that does not both leave what the insertion
\* makes of the state before, and the contents the reference sequence has.
C20_Step ==
    \A v \in Vals :
        /\ call'.op = "push_back_unchecked" /\ push_back_unchecked(1, v) =>
                /\ Becomes(1, push_back_impl_on(This(1), v)) /\ call'.result = "void"
                /\ Contents(1)' = RefPushBack(Contents(1), v)
        /\ call'.op = "push_back" /\ push_back(1, v) =>
                /\ Becomes(1, push_back_impl_on(This(1), v))
                /\ call'.result = push_back_impl_on(This(1), v).result
        /\ call'.op = "push_front_unchecked" /\ push_front_unchecked(1, v) =>
                /\ Becomes(1, push_front_impl_on(This(1), v)) /\ call'.result = "void"
                /\ Contents(1)' = RefPushFront(Contents(1), v)
        /\ call'.op = "push_front" /\ push_front(1, v) =>
                /\ Becomes(1, push_front_impl_on(This(1), v))
                /\ call'.result = push_front_impl_on(This(1), v).result
        /\ call'.op = "emplace_back_unchecked" /\ emplace_back_unchecked(1, v) =>
                /\ Becomes(1, emplace_back_impl_on(This(1), v)) /\ call'.result = "void"
                /\ Contents(1)' = RefPushBack(Contents(1), v)
        /\ call'.op = "emplace_back" /\ emplace_back(1, v) =>
                /\ Becomes(1, emplace_back_impl_on(This(1), v))
                /\ call'.result = emplace_back_impl_on(This(1), v).result
        /\ call'.op = "emplace_front_unchecked" /\ emplace_front_unchecked(1, v) =>
                /\ Becomes(1, emplace_front_impl_on(This(1), v)) /\ call'.result = "void"
                /\ Contents(1)' = RefPushFront(Contents(1), v)
        /\ call'.op = "emplace_front" /\ emplace_front(1, v) =>
                /\ Becomes(1, emplace_front_impl_on(This(1), v))
                /\ call'.result = emplace_front_impl_on(This(1), v).result

C20_UncheckedIsChecked == [][C20_Step]_vars

\* under the overwrite policy emplace_front_unchecked has left a full buffer
\* whose tail is in the last slot of the storage
C20_Witness ==
    /\ call.op = "emplace_front_unchecked" /\ call.result = "void"
    /\ Policy = "overwrite" /\ Capacity > 1
    /\ m_size[1] = Capacity /\ m_tail[1] = Capacity - 1

\* =================================================================== C21
\* begin() incremented n times
RECURSIVE Incremented(_, _)
Incremented(it, n) == IF n = 0 THEN it ELSE Incremented(iter_inc(it), n - 1)

\* the elements of object i lie across the end of the block
Wrapped(i) == m_size[i] >= 2 /\ m_tail[i] + m_size[i] > Capacity

\* C21: in every reachable state, wrapped ones included, end() - begin() is
\* size(), begin() == end() exactly when the buffer is empty, and for every
\* i < size() both begin() + i and begin() incremented i times dereference to
\* the element operator[](i) gives; a loop from begin() to end() reads the
\* elements in the order of operator[].
C21_IteratorsFollowIndexing ==
    /\ \A i \in BufIds : alive[i] =>
        /\ iter_diff(end(i), begin(i)) = Outcome("value", size(i), 0)
        /\ iter_eq(begin(i), end(i)) <=> empty(i)
        /\ \A k \in 0..(m_size[i] - 1) :
            /\ deref(iter_plus(begin(i), k)) = Outcome("value", ElemAt(i, k), k)
            /\ deref(Incremented(begin(i), k)) = Outcome("value", ElemAt(i, k), k)
    /\ call.op = "distance" => call.result = "value" /\ call.value = size(1)
    /\ call.op = "begin..end" => call.result = "void" /\ call.range = Contents(1)

C21_Witness ==
    /\ call.op = "begin..end" /\ Wrapped(1)
    /\ Len(call.range) = size(1)
    /\ call.range[1] # call.range[2]

\* =================================================================== C22
\* the sequence s, last element first
Reversed(s) == [k \in 1..Len(s) |-> s[Len(s) + 1 - k]]

\* C22: in every reachable state, wrapped ones included, the loop from
\* rbegin() to rend() visits exactly size() elements, newest first: the k-th
\* element visited is the one at logical index size() - k, which is never
\* below 0, and its value is what operator[] gives there.
C22_ReverseVisitsNewestFirst ==
    /\ \A i \in BufIds : alive[i] =>
        LET seen == for_each_reverse(rbegin(i), rend(i), <<>>) IN
        /\ Len(seen) = size(i)
        /\ \A k \in 1..Len(seen) :
            seen[k] = Outcome("value", ElemAt(i, size(i) - k), size(i) - k)
    /\ call.op = "rbegin..rend" =>
        call.result = "void" /\ call.range = Reversed(Contents(1))

C22_Witness ==
    /\ call.op = "rbegin..rend" /\ Wrapped(1)
    /\ Len(call.range) = size(1)
    /\ call.range[1] = back(1) /\ call.range[1] # front(1)

\* =================================================================== C23
\* C23: in a build with assertions every comparison of two iterators that
\* belong to different containers (==, !=, <, <=, >, >= and the difference)
\* fails the assertion, so none of them returns a result.
C23_Step ==
    \A op \in Comparisons, it \in Iterators, other \in Iterators :
        it.m_container # other.m_container /\ compare(op, it, other)
            => call'.result = "abort"

C23_EveryComparisonAsserts == [][C23_Step]_vars

\* =================================================================== C24
\* C24: on a non-empty buffer front() reads the element operator[](0) reads
\* and back() the one operator[](size() - 1) reads, wherever tail and head
\* lie in the block; an assignment through front() or back() changes that
\* one logical element and nothing else: no other slot, no cursor, no size.
C24_Step ==
    /\ call'.op = "front" /\ ~empty(1) /\ read_front(1) =>
        call'.result = "value" /\ call'.value = ElemAt(1, 0)
    /\ call'.op = "back" /\ ~empty(1) /\ read_back(1) =>
        call'.result = "value" /\ call'.value = ElemAt(1, size(1) - 1)
    /\ call'.op = "front=" /\ ~empty(1) /\ write_front(1, call'.value) =>
        /\ Contents(1)' = [Contents(1) EXCEPT ![1] = call'.value]
        /\ slots' = [slots EXCEPT ![get_storage(1)][physical_index(1, 0)] = call'.value]
        /\ State(1)' = State(1) /\ fault' = fault
    /\ call'.op = "back=" /\ ~empty(1) /\ write_back(1, call'.value) =>
        /\ Contents(1)' = [Contents(1) EXCEPT ![size(1)] = call'.value]
        /\ slots' = [slots EXCEPT ![get_storage(1)][physical_index(1, size(1) - 1)]
                                     = call'.value]
        /\ State(1)' = State(1) /\ fault' = fault

C24_EndsAreFirstAndLast == [][C24_Step]_vars

C24_Witness ==
    /\ call.op = "back=" /\ call.result = "void"
    /\ m_head[1] = 0 /\ size(1) >= 2
    /\ back(1) = call.value /\ ElemAt(1, size(1) - 2) # call.value

\* =================================================================== C25
\* C25: capacity(), size(), empty() and full() change nothing of the
\* container, and in every state what they return is related: empty() is
\* true exactly when size() is 0, full() exactly when size() is capacity(),
\* and capacity() is the template parameter Capacity.
C25_Step ==
    /\ \A op \in Observers : call'.op = op /\ observe(op, 1) =>
        /\ call'.result = "value" /\ call'.value = Observed(op, 1)
        /\ UNCHANGED <<params, alive, m_storage, m_head, m_tail, m_size, slots,
                       allocated, fault, undestroyed>>
    /\ Observed("empty", 1) = 1 <=> Observed("size", 1) = 0
    /\ Observed("full", 1) = 1 <=> Observed("size", 1) = Observed("capacity", 1)
    /\ Observed("capacity", 1) = Capacity

C25_ObserversAreConsistent == [][C25_Step]_vars

C25_Witness ==
    /\ call.op = "full" /\ call.value = 1
    /\ size(1) = Capacity /\ m_tail[1] > 0 /\ ~empty(1)

\* =================================================================== C26
\* C26: a heap-backed buffer whose construction has completed never has a
\* null storage pointer: the failure of its allocation stops the
\* construction, and no insertion runs on a buffer without storage.
C26_NoBufferWithoutStorage ==
    /\ \A i \in BufIds : alive[i] /\ ~uses_inline_storage => m_storage[i] # nullptr
    /\ fault # "null_write"

\* =================================================================== C27
\* every living object has the storage its strategy gives it: none on the
\* heap where storage is inline, one block of its own otherwise
C27_Storage ==
    /\ uses_inline_storage <=> Capacity <= InlineThreshold
    /\ uses_inline_storage => allocated = {}
    /\ ~uses_inline_storage =>
        /\ \A i \in BufIds : alive[i] => m_storage[i] \in allocated
        /\ \A i \in BufIds : ~alive[i] => m_storage[i] = nullptr
        /\ \A i, j \in BufIds : alive[i] /\ alive[j] /\ i # j => m_storage[i] # m_storage[j]
        /\ Cardinality(allocated) = Cardinality({i \in BufIds : alive[i]})

\* an insertion or removal does to the logical contents what it does to a
\* sequence, whatever the storage
C27_Step ==
    /\ \A i \in BufIds, v \in PairVals : push_back(i, v) =>
        /\ call'.result \in {"inserted", "overwritten", "discarded"}
        /\ Contents(i)' = RefPushBack(Contents(i), v)
    /\ \A i \in BufIds, v \in PairVals : push_front(i, v) =>
        /\ call'.result \in {"inserted", "overwritten", "discarded"}
        /\ Contents(i)' = RefPushFront(Contents(i), v)
    /\ \A i \in BufIds : pop_back(i) => Contents(i)' = Front(Contents(i))
    /\ \A i \in BufIds : pop_front(i) => Contents(i)' = Tail(Contents(i))

\* C27: storage is inline exactly when Capacity <= InlineThreshold; a buffer
\* whose storage is not inline has exactly one heap block, its own, from its
\* construction to its destruction; and push, pop and access behave the same
\* under both strategies: as on a bounded sequence.
C27_StrategiesBehaveAlike == []C27_Storage /\ [][C27_Step]_vars

\* =================================================================== C28
\* the slots of its block that object i counts as holding its elements
LiveRegion(i) == {(m_tail[i] + k) % Capacity : k \in 0..(m_size[i] - 1)}

\* C28: in every reachable state, after insertions, overwrites, removals,
\* clear, copies and moves, the slots that hold a constructed element are
\* exactly, for every container, the size slots from tail on, wrapping at
\* Capacity; a container without a block has no elements, and no slot
\* outside a container's region holds one.
C28_LiveRegion ==
    /\ LiveSlots = {bk \in Blocks \X (0..(Capacity - 1)) :
                        \E i \in BufIds : /\ alive[i]
                                          /\ get_storage(i) = bk[1]
                                          /\ bk[2] \in LiveRegion(i)}
    /\ \A i \in BufIds : get_storage(i) = nullptr \/ ~alive[i] => m_size[i] = 0

C28_Witness ==
    /\ call.op = "move_construct" /\ ~uses_inline_storage
    /\ alive[1] /\ alive[2] /\ m_storage[1] = nullptr
    /\ Wrapped(2)
    /\ LiveSlots = {<<m_storage[2], k>> : k \in 0..(Capacity - 1)}

\* =================================================================== C29
\* C29: in every reachable state of every container a full buffer
\* (size == Capacity) and an empty buffer (size == 0) both have head == tail;
\* what tells them apart is size alone, which is all full() and empty() read.
C29_HeadMeetsTail ==
    \A i \in BufIds :
        /\ m_size[i] = Capacity => m_head[i] = m_tail[i]
        /\ m_size[i] = 0 => m_head[i] = m_tail[i]
        /\ Observed("full", i) = Bool(m_size[i] = Capacity)
        /\ Observed("empty", i) = Bool(m_size[i] = 0)

C29_Witness ==
    /\ alive[1] /\ alive[2]
    /\ full(1) /\ empty(2)
    /\ m_head[1] = m_tail[1] /\ m_head[2] = m_tail[2] /\ m_head[1] = m_head[2]
    /\ m_tail[1] > 0
    /\ call.op = "pop_back"

\* =================================================================== C30
\* C30: in every state reached through calls whose preconditions are met
\* (no removal from an empty buffer), size is at least 0 and at most
\* Capacity: no insertion takes it above Capacity, no removal below 0.
C30_SizeWithinCapacity ==
    \A i \in BufIds : m_size[i] \in 0..Capacity

C30_Witness ==
    /\ call.result = "overwritten" /\ call.op = "push_front"
    /\ m_size[1] = Capacity /\ Capacity = MaxCapacity

\* =================================================================== C31
\* C31: at every Capacity, on the bitmask path and on the generic path alike,
\* next_index(index) is (index + 1) mod Capacity and prev_index(index) is
\* (index - 1 + Capacity) mod Capacity for every index below Capacity, and
\* add_index(index, offset) is (index + offset) mod Capacity for every index
\* and offset below Capacity.
C31_IndexFunctionsAreModular ==
    /\ call.op = "next_index" => call.value = (call.range[1] + 1) % Capacity
    /\ call.op = "prev_index" => call.value = (call.range[1] - 1 + Capacity) % Capacity
    /\ call.op = "add_index" => call.value = (call.range[1] + call.range[2]) % Capacity

\* =================================================================== C32
\* C32: at every Capacity up to the largest value of IndexType, with the
\* arithmetic done in the width of IndexType, physical_index(i) of a buffer
\* with tail below Capacity is (tail + i) mod Capacity for every logical index
\* i below size, capacities above half the range of IndexType included.
C32_MappingIsExact ==
    call.op = "physical_index" => call.value = (m_tail[1] + call.range[1]) % Capacity

\* =================================================================== C33
\* C33: in a build with assertions every dereference of an iterator is
\* checked against the size its container has at that moment: an iterator
\* kept across pop_back, pop_front, pop_*_safe, clear or a move from its
\* container whose index is then at or beyond size fails the assertion, so
\* does an iterator without a container, and a dereference that returns has
\* read an element of the live region.
C33_Step ==
    call'.op = "operator*" /\ ~NDEBUG /\ deref_held =>
        IF held.m_container = nullptr \/ held.m_index >= m_size[held.m_container]
        THEN call'.result = "abort"
        ELSE /\ call'.result = "value"
             /\ <<get_storage(held.m_container),
                  (m_tail[held.m_container] + held.m_index) % Capacity>> \in LiveSlots
             /\ call'.value = slots[get_storage(held.m_container)]
                                   [(m_tail[held.m_container] + held.m_index) % Capacity]

C33_DereferenceIsChecked == [][C33_Step]_vars

C33_Witness ==
    /\ call.op = "operator*" /\ call.result = "abort"
    /\ held.m_container = 1 /\ alive[2]
    /\ held.m_index > m_size[1]

\* =================================================================== C34
\* the iterator the caller kept is one of object 1, between begin() and end()
HeldInRange == held.m_container = 1 /\ held.m_index <= m_size[1]

\* C34: for an iterator at logical index i and a signed n with
\* 0 <= i + n <= size(), it += n (so it + n) lands on index i + n, the
\* difference (it + n) - it is n and (it + n) - n is it; ++ and then -- return
\* to the same position; and two iterators of one container satisfy a < b
\* exactly when index(a) < index(b), a == b exactly when the indices are
\* equal, with <=, > and >= in step.
C34_Step ==
    HeldInRange =>
    /\ \A n \in Distances :
        call'.op = "+=" /\ call'.value = n /\ advance(n)
        /\ 0 <= held.m_index + n /\ held.m_index + n <= m_size[1] =>
            /\ held' = iterator(1, held.m_index + n)
            /\ fault' = fault
            /\ iter_diff(held', held) = Outcome("value", n, 0)
            /\ iter_plus(held', -n) = held
    /\ call'.op = "++" /\ increment /\ held.m_index < m_size[1] =>
        /\ held' = iterator(1, held.m_index + 1)
        /\ iter_dec(held') = held
    /\ call'.op = "--" /\ decrement /\ held.m_index > 0 =>
        /\ held' = iterator(1, held.m_index - 1)
        /\ iter_inc(held') = held
    /\ \A other \in Iterators :
        /\ iter_lt(held, other) = Outcome("value", Bool(held.m_index < other.m_index), 0)
        /\ iter_le(held, other) = Outcome("value", Bool(held.m_index <= other.m_index), 0)
        /\ iter_gt(held, other) = Outcome("value", Bool(held.m_index > other.m_index), 0)
        /\ iter_ge(held, other) = Outcome("value", Bool(held.m_index >= other.m_index), 0)
        /\ iter_eq(held, other) <=> held.m_index = other.m_index
        /\ iter_ne(held, other) <=> held.m_index # other.m_index
        /\ \A op \in Comparisons : call'.op = op /\ compare(op, held, other) =>
            call'.result = "value" /\ call'.value = compared(op, held, other).value

C34_IteratorArithmeticIsExact == [][C34_Step]_vars

C34_Witness ==
    /\ call.op = "+=" /\ call.result = "void"
    /\ call.value = -m_size[1] /\ m_size[1] >= 2
    /\ held = begin(1) /\ m_tail[1] > 0

\* =================================================================== C35
\* C35: the fill constructor leaves a full buffer under either policy and at
\* every capacity IndexType admits: size() is Capacity, head equals tail,
\* every element is the value, and the loop made exactly Capacity
\* insertions, each with the outcome inserted.
C35_FillMakesFull ==
    call.op = "fill_construct" =>
        /\ alive[1] /\ fault = "none"
        /\ size(1) = Capacity /\ full(1)
        /\ m_head[1] = m_tail[1]
        /\ Contents(1) = [k \in 1..Capacity |-> call.range[1]]
        /\ call.counts = Counts(Capacity, 0, 0)
        /\ undestroyed = Capacity

C35_Witness ==
    /\ call.op = "fill_construct"
    /\ Capacity = IndexModulus - 1
    /\ Policy = "discard"
    /\ m_size[1] = Capacity
    /\ m_head[1] = 0 /\ m_tail[1] = 0

\* =================================================================== C36
\* C36: in every reachable state of every container, a copy-constructed, a
\* moved-to, a moved-from and a cleared one included, head and tail are
\* below Capacity and head is (tail + size) mod Capacity.
C36_CursorsAreConsistent ==
    \A i \in BufIds :
        alive[i] =>
            /\ m_head[i] \in 0..(Capacity - 1)
            /\ m_tail[i] \in 0..(Capacity - 1)
            /\ m_head[i] = (m_tail[i] + m_size[i]) % Capacity

C36_Witness ==
    /\ call.op = "move_construct"
    /\ alive[1] /\ alive[2]
    /\ m_head[1] = 0 /\ m_tail[1] = 0 /\ m_size[1] = 0
    /\ m_size[2] = 1 /\ m_head[2] < m_tail[2]

\* =================================================================== C37
\* C37: when the constructor of the element throws during push_back,
\* push_front, emplace_back or emplace_front on a buffer that is not full,
\* head, tail, size and every stored element are as they were before the
\* call.
C37_Step ==
    call'.result = "throws" /\ ~full(1) =>
        /\ m_head' = m_head /\ m_tail' = m_tail /\ m_size' = m_size
        /\ slots' = slots

C37_ThrowLeavesBufferAlone == [][C37_Step]_vars

\* =================================================================== C38
\* C38: when, on a full buffer under overwrite, the construction of the
\* replacement throws after the old element was destroyed, the slots holding
\* an element are after the call still exactly the size slots from tail on:
\* none of them is destroyed and counted.
C38_Step ==
    call'.result = "throws" /\ full(1) =>
        /\ Intact(1)'
        /\ LiveSlots' = {bk \in Blocks \X (0..(Capacity - 1)) :
                            get_storage(1) = bk[1] /\ bk[2] \in LiveRegion(1)'}

C38_OverwriteKeepsLiveRegion == [][C38_Step]_vars

\* =================================================================== C39
\* the containers that hold block b
Owners(b) == {i \in BufIds : m_storage[i] = b}

\* every allocated block is held by exactly one container, a living one; no
\* container holds a block that is not allocated; and once every container
\* has been destroyed no block is allocated
C39_Owned ==
    /\ uses_inline_storage => allocated = {} /\ \A i \in BufIds : m_storage[i] = nullptr
    /\ \A b \in allocated : \E i \in BufIds : Owners(b) = {i} /\ alive[i]
    /\ \A i \in BufIds : m_storage[i] # nullptr => m_storage[i] \in allocated
    /\ (\A i \in BufIds : ~alive[i]) => allocated = {}

\* a call frees only a block that was allocated and that the container it
\* was called on held; move assignment frees the block its target held and
\* the target adopts the block of the source, which gives it up
C39_Step ==
    /\ \A b \in allocated \ allocated' :
        /\ call'.op \in {"destructor", "move_assign"}
        /\ Owners(b) # {} /\ Owners(b)' = {}
    /\ call'.op = "move_assign" /\ ~uses_inline_storage =>
        \A i, other \in BufIds :
            i # other /\ MoveAssign(i, other) =>
                /\ m_storage[i] # nullptr => m_storage[i] \in allocated \ allocated'
                /\ m_storage'[i] = m_storage[other]
                /\ m_storage'[other] = nullptr
                /\ allocated' = allocated \ {m_storage[i]}

\* C39: every allocated heap block is owned by exactly one container at a
\* time and is freed exactly once; move assignment frees the block of its
\* target before it adopts the block of its source; no sequence of moves and
\* destructions frees a block twice, and no block is left allocated once
\* every container has been destroyed.
C39_SingleOwnership == []C39_Owned /\ [][C39_Step]_vars

C39_Witness ==
    /\ call.op = "move_assign" /\ ~uses_inline_storage
    /\ alive[1] /\ alive[2]
    /\ m_storage[1] = nullptr /\ m_storage[2] = 1
    /\ allocated = {1}
    /\ m_size[2] > 0

\* =================================================================== C40
\* C40: on a buffer that is not full push_back(v) followed at once by
\* pop_back() leaves head, tail, size, the contents and the slots as they
\* were, and so does push_front(v) followed by pop_front(); push_back(v)
\* followed by pop_front() on a buffer of n < Capacity elements leaves n
\* elements, the former ones without the oldest and then v.
C40_Step ==
    /\ call'.op \in {"push_back; pop_back", "push_front; pop_front"} /\ ~full(1) =>
        /\ m_head' = m_head /\ m_tail' = m_tail /\ m_size' = m_size
        /\ Contents(1)' = Contents(1)
        /\ slots' = slots
        /\ undestroyed' = undestroyed
    /\ call'.op = "push_back; pop_front" /\ ~full(1) =>
        /\ m_size' = m_size
        /\ Contents(1)' = Tail(Append(Contents(1), call'.value))
        /\ m_head' = [m_head EXCEPT ![1] = next_index(m_head[1])]
        /\ m_tail' = [m_tail EXCEPT ![1] = next_index(m_tail[1])]
        /\ undestroyed' = undestroyed

C40_RoundTripRestores == [][C40_Step]_vars

C40_Witness ==
    /\ call.op = "push_back; pop_front" /\ call.value = MaxVal
    /\ Capacity = MaxCapacity
    /\ m_size[1] = Capacity - 1
    /\ m_head[1] < m_tail[1]
    /\ Contents(1)[m_size[1]] = MaxVal

====
